---------------------------- MODULE Spec2Model ----------------------------
(***************************************************************************)
(* A model of src/src/spotify_llm_controller/spotify_actions.py: the       *)
(* retrying invoker (call_tool_with_retry), the five action handlers, the  *)
(* dispatcher (execute_single_action), the response formatter              *)
(* (format_final_response) and the sequence executor                       *)
(* (execute_spotify_actions).                                              *)
(*                                                                         *)
(* The executor is a coroutine of a single-threaded event loop: it runs    *)
(* without interruption between two suspension points (an awaited remote   *)
(* call, an awaited backoff sleep).  Each action below is one such         *)
(* uninterrupted stretch of the code.                                      *)
(***************************************************************************)
EXTENDS Integers, Sequences, FiniteSets, TLC

VARIABLES
  input,        \* the action list as the caller passed it (never written)
  actions,      \* the action list the executor iterates; handlers write into its params
  idx,          \* position of the loop `for action in actions` (1-based)
  pc,           \* where the coroutine stands
  results,      \* execute_spotify_actions' local `results`
  context,      \* execute_spotify_actions' local `context`
  response,     \* the value execute_spotify_actions returned (None before it returns)
  frame,        \* the running call_tool_with_retry: arguments, `retries`, result or exception
  calls,        \* the session.call_tool calls issued by the current step, in order
  sleeps,       \* the asyncio.sleep delays of the current call_tool_with_retry, in order
  outstanding,  \* remote calls issued and not yet answered
  dispatches,   \* how many times execute_single_action has been called
  formatted,    \* whether format_final_response has been called
  trace,        \* what the session answered this execution's calls with, when recorded
  other,        \* a second execution of execute_spotify_actions, while it is suspended
  handler       \* client.handle_command: where it stands, what it parsed, opened and answered

vars == <<input, actions, idx, pc, results, context, response, frame, calls,
          sleeps, outstanding, dispatches, formatted, trace, other, handler>>

---------------------------------------------------------------------------
(* Bounds of the model and constants of the program.                       *)

\* longest action list handed to the executor
MaxActions == 3
\* largest max_retries handed to call_tool_with_retry when it is called directly
MaxAttempts == 4
\* config.py
MAX_RETRIES == 3
RETRY_DELAY == 1

---------------------------------------------------------------------------
(* Python values.  A value that may be of several Python types (a JSON     *)
(* payload, a parameter, a context slot) is a record tagged by its type;   *)
(* a dict is a function from its keys.                                     *)

None == [k |-> "None"]
Str(s) == [k |-> "str", s |-> s]
List(l) == [k |-> "list", l |-> l]
Dict(d) == [k |-> "dict", d |-> d]
EmptyDict == Dict([x \in {} |-> None])

\* bool(v)
Truthy(v) ==
  CASE v.k = "None" -> FALSE
    [] v.k = "str"  -> v.s # ""
    [] v.k = "list" -> v.l # <<>>
    [] v.k = "dict" -> DOMAIN v.d # {}
    [] OTHER        -> TRUE

\* d.get(key, default) on the keys of a dict
Get(d, key, default) == IF key \in DOMAIN d THEN d[key] ELSE default

\* d with d[key] = v (the key is added when absent)
Put(d, key, v) == [x \in DOMAIN d \cup {key} |-> IF x = key THEN v ELSE d[x]]

\* c in s, for a one-character c and a str s
Contains(s, c) == \E i \in 1..Len(s) : SubSeq(s, i, i) = c

\* str(v) as an f-string renders it
Fmt(v) ==
  CASE v.k = "str"  -> v.s
    [] v.k = "None" -> "None"
    [] v.k = "list" -> IF v.l = <<>> THEN "[]" ELSE "[...]"
    [] v.k = "dict" -> IF DOMAIN v.d = {} THEN "{}" ELSE "{...}"
    [] OTHER        -> "?"

\* 2 ** n
RECURSIVE Pow2(_)
Pow2(n) == IF n <= 0 THEN 1 ELSE 2 * Pow2(n - 1)

---------------------------------------------------------------------------
(* The remote session.  A RemoteResult is [isError, content]; a content    *)
(* element bearing text is [text |-> t], where a text t is its characters  *)
(* (raw) and what json.loads makes of them (json; Undecodable when         *)
(* json.loads raises JSONDecodeError).                                     *)

Undecodable == [k |-> "undecodable"]
JsonText(raw, v) == [raw |-> raw, json |-> v]
PlainText(raw) == [raw |-> raw, json |-> Undecodable]
Ok(text) == [isError |-> FALSE, content |-> <<[text |-> text]>>]
Failed(text) == [isError |-> TRUE, content |-> <<[text |-> text]>>]

\* the exception session.call_tool raises on the n-th call of a step
CallFailure(n) == "call " \o ToString(n) \o " failed"

NoFrame == [tool_name |-> "", params |-> [x \in {} |-> None], max_retries |-> 0,
            retries |-> 0, result |-> None, exc |-> ""]

\* NewFrame that allows one attempt more than it was given
NewFrameOneMore(tool_name, params, max_retries) ==
  [tool_name |-> tool_name, params |-> params, max_retries |-> max_retries + 1,
   retries |-> 0, result |-> None, exc |-> ""]

NewFrame(tool_name, params, max_retries) ==
  [tool_name |-> tool_name, params |-> params, max_retries |-> max_retries,
   retries |-> 0, result |-> None, exc |-> ""]

---------------------------------------------------------------------------
(* What a stretch of handler code ends in: it reaches the awaited remote   *)
(* call (Call, with the params as the handler left them), it returns a     *)
(* StepOutcome (Ret, with the context as the handler left it), or an       *)
(* exception leaves it (Raise).                                            *)

Call(tool_name, params) == [kind |-> "call", tool_name |-> tool_name, params |-> params]
Ret(outcome, ctx) == [kind |-> "return", outcome |-> outcome, context |-> ctx]
Raise(msg) == [kind |-> "raise", msg |-> msg]

\* Error that also names an action
ErrorWithAction(msg) == [error |-> msg, action |-> "error"]

Error(msg) == [error |-> msg]

\* the Python type name of a value, as an AttributeError spells it
TypeName(v) ==
  CASE v.k = "None" -> "NoneType"
    [] v.k = "str"  -> "str"
    [] v.k = "list" -> "list"
    [] v.k = "dict" -> "dict"
    [] OTHER        -> "object"

NoAttribute(v, attr) == "'" \o TypeName(v) \o "' object has no attribute '" \o attr \o "'"

\* next((msg.text for msg in result.content if hasattr(msg, 'text')), default)
FirstText(content, default) ==
  LET withText == SelectSeq(content, LAMBDA m : "text" \in DOMAIN m)
  IN IF withText = <<>> THEN default ELSE withText[1].text

EmptyObjectText == JsonText("{}", EmptyDict)

---------------------------------------------------------------------------
(* handle_search_action                                                    *)

\* ArtistOf that prefers the scalar `artist` field to the `artists` list
ArtistOfScalarFirst(item) ==
  IF "artist" \in DOMAIN item.d
  THEN [caught |-> FALSE, value |-> item.d["artist"]]
  ELSE IF "artists" \in DOMAIN item.d /\ item.d["artists"].k = "list"
  THEN IF item.d["artists"].l = <<>>
       THEN [caught |-> TRUE]
       ELSE [caught |-> FALSE, value |-> item.d["artists"].l[1]]
  ELSE [caught |-> FALSE, value |-> Str("Unknown Artist")]

\* the artist of a chosen item (lines 78-83, 98-103); [caught] when the
\* lookup raises an exception the handler's except clause catches
ArtistOf(item) ==
  IF "artists" \in DOMAIN item.d /\ item.d["artists"].k = "list"
  THEN IF item.d["artists"].l = <<>>
       THEN [caught |-> TRUE]                       \* IndexError
       ELSE [caught |-> FALSE, value |-> item.d["artists"].l[1]]
  ELSE [caught |-> FALSE, value |-> Get(item.d, "artist", Str("Unknown Artist"))]

\* ChosenItem that stores the bare id as the uri
ChosenItemBareUri(items, kind) ==
  CASE items.k = "dict" -> [caught |-> TRUE]        \* KeyError: 0
    [] items.k = "str"  -> [caught |-> FALSE, raised |-> TRUE,
                            msg |-> NoAttribute(items, "get")]
    [] OTHER ->
       LET item == items.l[1] IN
       IF item.k # "dict"
       THEN [caught |-> FALSE, raised |-> TRUE,
             msg |-> IF item.k = "None"
                     THEN "argument of type 'NoneType' is not iterable"
                     ELSE NoAttribute(item, "get")]
       ELSE LET artist == ArtistOf(item) IN
            IF artist.caught \/ "name" \notin DOMAIN item.d \/ "id" \notin DOMAIN item.d
            THEN [caught |-> TRUE]                  \* IndexError, KeyError
            ELSE [caught |-> FALSE, raised |-> FALSE,
                  value |-> Dict([name   |-> item.d["name"],
                                  uri    |-> item.d["id"],
                                  id     |-> item.d["id"],
                                  artist |-> artist.value,
                                  type   |-> Str(kind)])]

\* lines 74-91 (kind "album") and 94-111 (kind "track"): the search_result
\* built from the first element of the list found under `albums` or `tracks`
ChosenItem(items, kind) ==
  CASE items.k = "dict" -> [caught |-> TRUE]        \* KeyError: 0
    [] items.k = "str"  -> [caught |-> FALSE, raised |-> TRUE,
                            msg |-> NoAttribute(items, "get")]
    [] OTHER ->
       LET item == items.l[1] IN
       IF item.k # "dict"
       THEN [caught |-> FALSE, raised |-> TRUE,
             msg |-> IF item.k = "None"
                     THEN "argument of type 'NoneType' is not iterable"
                     ELSE NoAttribute(item, "get")]
       ELSE LET artist == ArtistOf(item) IN
            IF artist.caught \/ "name" \notin DOMAIN item.d \/ "id" \notin DOMAIN item.d
            THEN [caught |-> TRUE]                  \* IndexError, KeyError
            ELSE [caught |-> FALSE, raised |-> FALSE,
                  value |-> Dict([name   |-> item.d["name"],
                                  uri    |-> Str("spotify:" \o kind \o ":" \o Fmt(item.d["id"])),
                                  id     |-> item.d["id"],
                                  artist |-> artist.value,
                                  type   |-> Str(kind)])]

SearchBegin(params, ctx) == Call("SpotifySearch", params)

\* SearchParse that takes an album whenever the payload lists one
SearchParseAlbumsFirst(params, ctx, data) ==
  LET found(chosen) ==
        IF chosen.caught THEN Ret(Error("Failed to parse search results"), ctx)
        ELSE IF chosen.raised THEN Raise(chosen.msg)
        ELSE Ret([action |-> "search", result |-> chosen.value], ctx)
  IN
  IF data = Undecodable THEN Ret(Error("Failed to parse search results"), ctx)
  ELSE IF data.k # "dict" THEN Raise(NoAttribute(data, "get"))
  ELSE IF Truthy(Get(data.d, "albums", None))
       THEN found(ChosenItem(data.d["albums"], "album"))
  ELSE IF Truthy(Get(data.d, "tracks", None))
       THEN found(ChosenItem(data.d["tracks"], "track"))
  ELSE Ret(Error("No results found for query: " \o Fmt(Get(params, "query", None))), ctx)

SearchParse(params, ctx, data) ==
  LET found(chosen) ==
        IF chosen.caught THEN Ret(Error("Failed to parse search results"), ctx)
        ELSE IF chosen.raised THEN Raise(chosen.msg)
        ELSE Ret([action |-> "search", result |-> chosen.value], ctx)
  IN
  IF data = Undecodable THEN Ret(Error("Failed to parse search results"), ctx)
  ELSE IF data.k # "dict" THEN Raise(NoAttribute(data, "get"))
  ELSE IF Get(params, "qtype", None) = Str("album") /\ Truthy(Get(data.d, "albums", None))
       THEN found(ChosenItem(data.d["albums"], "album"))
  ELSE IF Truthy(Get(data.d, "tracks", None))
       THEN found(ChosenItem(data.d["tracks"], "track"))
  ELSE Ret(Error("No results found for query: " \o Fmt(Get(params, "query", None))), ctx)

SearchEnd(params, ctx, result) ==
  IF result = None \/ result.isError
  THEN Ret(Error("No search results found"), ctx)
  ELSE SearchParse(params, ctx, FirstText(result.content, EmptyObjectText).json)

---------------------------------------------------------------------------
(* handle_get_info_action                                                  *)

\* GetInfoBegin that ignores the context
GetInfoBeginNoContext(params, ctx) == Call("SpotifyGetInfo", params)

GetInfoBegin(params, ctx) ==
  LET search_result == Get(ctx, "search_result", None) IN
  IF Truthy(search_result) /\ ~Truthy(Get(params, "item_uri", None))
  THEN Call("SpotifyGetInfo", Put(params, "item_uri", search_result.d["uri"]))
  ELSE Call("SpotifyGetInfo", params)

\* GetInfoEnd that stores the tracks before it tests them
GetInfoEndStoreFirst(params, ctx, result) ==
  IF result = None THEN Raise(NoAttribute(None, "isError"))
  ELSE IF result.isError THEN Ret(Error("Failed to get album tracks"), ctx)
  ELSE LET album_data == FirstText(result.content, EmptyObjectText).json IN
       IF album_data = Undecodable
       THEN Ret(Error("Failed to parse album information"), ctx)
       ELSE IF album_data.k # "dict" THEN Raise(NoAttribute(album_data, "get"))
       ELSE LET album_tracks == Get(album_data.d, "tracks", List(<<>>)) IN
            IF ~Truthy(album_tracks)
            THEN Ret(Error("No tracks found in album"), Put(ctx, "album_tracks", album_tracks))
            ELSE Ret([action |-> "get_info", result |-> album_data],
                     Put(ctx, "album_tracks", album_tracks))

GetInfoEnd(params, ctx, result) ==
  IF result = None THEN Raise(NoAttribute(None, "isError"))
  ELSE IF result.isError THEN Ret(Error("Failed to get album tracks"), ctx)
  ELSE LET album_data == FirstText(result.content, EmptyObjectText).json IN
       IF album_data = Undecodable
       THEN Ret(Error("Failed to parse album information"), ctx)
       ELSE IF album_data.k # "dict" THEN Raise(NoAttribute(album_data, "get"))
       ELSE LET album_tracks == Get(album_data.d, "tracks", List(<<>>)) IN
            IF ~Truthy(album_tracks)
            THEN Ret(Error("No tracks found in album"), ctx)
            ELSE Ret([action |-> "get_info", result |-> album_data],
                     Put(ctx, "album_tracks", album_tracks))

---------------------------------------------------------------------------
(* handle_playback_action                                                  *)

\* PlaybackUri that prefixes every uri
PlaybackUriAlwaysPrefixed(search_result) ==
  Str("spotify:track:" \o Fmt(search_result.d["uri"]))

\* lines 196-199: the uri a start without spotify_uri takes from the search result
PlaybackUri(search_result) ==
  LET uri == search_result.d["uri"] IN
  IF ~Contains(Fmt(uri), ":") THEN Str("spotify:track:" \o Fmt(uri)) ELSE uri

PlaybackBegin(params, ctx) ==
  LET search_result == Get(ctx, "search_result", None) IN
  IF /\ Get(params, "action", None) = Str("start")
     /\ Truthy(search_result)
     /\ ~Truthy(Get(params, "spotify_uri", None))
  THEN Call("SpotifyPlayback", Put(params, "spotify_uri", PlaybackUri(search_result)))
  ELSE Call("SpotifyPlayback", params)

\* "album" if search_result["type"] == "album" else "track"
ItemType(search_result) ==
  IF search_result.d["type"] = Str("album") THEN "album" ELSE "track"

\* PlaybackSuccess without the resume branch
PlaybackSuccessNoResume(params, search_result) ==
  LET action == Get(params, "action", None) IN
  IF action = Str("start") /\ Truthy(search_result)
  THEN [action  |-> "playback",
        type    |-> action,
        message |-> "Playing " \o (IF search_result.d["type"] = Str("album")
                                    THEN "album" ELSE "track") \o " "
                    \o Fmt(search_result.d["name"]) \o " by "
                    \o Fmt(search_result.d["artist"]),
        item    |-> search_result]
  ELSE IF action = Str("pause")
  THEN [action |-> "playback", type |-> Str("pause"), message |-> "Playback paused"]
  ELSE IF action = Str("skip")
  THEN [action |-> "playback", type |-> Str("skip"), message |-> "Skipped to next track"]
  ELSE [action |-> "playback", type |-> Get(params, "action", Str("unknown")),
        message |-> "Playback command executed"]

\* lines 228-265: the success record of a playback step
PlaybackSuccess(params, search_result) ==
  LET action == Get(params, "action", None) IN
  IF action = Str("start")
  THEN IF Truthy(search_result)
       THEN [action  |-> "playback",
             type    |-> action,
             message |-> "Playing " \o ItemType(search_result) \o " "
                         \o Fmt(search_result.d["name"]) \o " by "
                         \o Fmt(search_result.d["artist"]),
             item    |-> search_result]
       ELSE [action |-> "playback", type |-> Str("resume"), message |-> "Resuming playback"]
  ELSE IF action = Str("pause")
  THEN [action |-> "playback", type |-> Str("pause"), message |-> "Playback paused"]
  ELSE IF action = Str("skip")
  THEN [action |-> "playback", type |-> Str("skip"), message |-> "Skipped to next track"]
  ELSE [action |-> "playback", type |-> Get(params, "action", Str("unknown")),
        message |-> "Playback command executed"]

\* PlaybackEnd whose error text leaves the action out
PlaybackEndNoAction(params, ctx, result) ==
  IF result = None THEN Raise(NoAttribute(None, "isError"))
  ELSE IF result.isError
  THEN Ret(Error("Playback action failed: "
                 \o FirstText(result.content, PlainText("")).raw), ctx)
  ELSE Ret(PlaybackSuccess(params, Get(ctx, "search_result", None)), ctx)

PlaybackEnd(params, ctx, result) ==
  IF result = None THEN Raise(NoAttribute(None, "isError"))
  ELSE IF result.isError
  THEN Ret(Error("Playback action failed: " \o Fmt(Get(params, "action", None)) \o ": "
                 \o FirstText(result.content, PlainText("")).raw), ctx)
  ELSE Ret(PlaybackSuccess(params, Get(ctx, "search_result", None)), ctx)

---------------------------------------------------------------------------
(* handle_queue_action                                                     *)

\* QueueBegin that takes the search result's uri whenever there is one
QueueBeginContextFirst(params, ctx) ==
  LET search_result == Get(ctx, "search_result", None) IN
  IF ~Truthy(Get(params, "track_id", None)) /\ ~Truthy(search_result)
  THEN Ret(Error("No track ID available for queue"), ctx)
  ELSE IF Truthy(search_result)
  THEN Call("SpotifyQueue", Put(params, "track_id", search_result.d["uri"]))
  ELSE Call("SpotifyQueue", params)

QueueBegin(params, ctx) ==
  LET search_result == Get(ctx, "search_result", None) IN
  IF ~Truthy(Get(params, "track_id", None)) /\ ~Truthy(search_result)
  THEN Ret(Error("No track ID available for queue"), ctx)
  ELSE IF Truthy(search_result) /\ ~Truthy(Get(params, "track_id", None))
  THEN Call("SpotifyQueue", Put(params, "track_id", search_result.d["uri"]))
  ELSE Call("SpotifyQueue", params)

\* lines 319-332: the success record of a queue step
QueueSuccess(search_result) ==
  IF Truthy(search_result)
  THEN [action  |-> "queue",
        message |-> "Added " \o ItemType(search_result) \o " "
                    \o Fmt(search_result.d["name"]) \o " by "
                    \o Fmt(search_result.d["artist"]) \o " to queue",
        item    |-> search_result]
  ELSE [action |-> "queue", message |-> "Added item to queue"]

QueueEnd(params, ctx, result) ==
  IF result = None THEN Raise(NoAttribute(None, "isError"))
  ELSE IF result.isError
  THEN Ret(Error("Failed to add to queue: " \o FirstText(result.content, PlainText("")).raw), ctx)
  ELSE Ret(QueueSuccess(Get(ctx, "search_result", None)), ctx)

---------------------------------------------------------------------------
(* handle_playlist_action                                                  *)

\* len(v) of a decoded payload
PyLen(v) ==
  CASE v.k = "str"  -> Len(v.s)
    [] v.k = "list" -> Len(v.l)
    [] v.k = "dict" -> Cardinality(DOMAIN v.d)
    [] OTHER        -> 0

HasLen(v) == v.k \in {"str", "list", "dict"}

\* PlaylistBegin testing that the keys are there where their values are meant
PlaylistBeginKeyPresent(params, ctx) ==
  LET action_type == Get(params, "action", None)
      has(key) == key \in DOMAIN params
  IN
  IF action_type = Str("get") THEN Call("SpotifyPlaylist", params)
  ELSE IF action_type = Str("get_tracks")
  THEN IF ~has("playlist_id")
       THEN Ret(Error("playlist_id is required for get_tracks action"), ctx)
       ELSE Call("SpotifyPlaylist", params)
  ELSE IF action_type \in {Str("add_tracks"), Str("remove_tracks")}
  THEN IF ~has("playlist_id") \/ ~has("track_ids")
       THEN Ret(Error("playlist_id and track_ids are required for "
                      \o Fmt(action_type) \o " action"), ctx)
       ELSE Call("SpotifyPlaylist", params)
  ELSE IF action_type = Str("change_details")
  THEN IF ~has("playlist_id") \/ (~has("name") /\ ~has("description"))
       THEN Ret(Error("playlist_id and at least one of name or description are required"), ctx)
       ELSE Call("SpotifyPlaylist", params)
  ELSE Ret(Error("Unknown playlist action: " \o Fmt(action_type)), ctx)

PlaylistBegin(params, ctx) ==
  LET action_type == Get(params, "action", None)
      has(key) == Truthy(Get(params, key, None))
  IN
  IF action_type = Str("get") THEN Call("SpotifyPlaylist", params)
  ELSE IF action_type = Str("get_tracks")
  THEN IF ~has("playlist_id")
       THEN Ret(Error("playlist_id is required for get_tracks action"), ctx)
       ELSE Call("SpotifyPlaylist", params)
  ELSE IF action_type \in {Str("add_tracks"), Str("remove_tracks")}
  THEN IF ~has("playlist_id") \/ ~has("track_ids")
       THEN Ret(Error("playlist_id and track_ids are required for "
                      \o Fmt(action_type) \o " action"), ctx)
       ELSE Call("SpotifyPlaylist", params)
  ELSE IF action_type = Str("change_details")
  THEN IF ~has("playlist_id") \/ (~has("name") /\ ~has("description"))
       THEN Ret(Error("playlist_id and at least one of name or description are required"), ctx)
       ELSE Call("SpotifyPlaylist", params)
  ELSE Ret(Error("Unknown playlist action: " \o Fmt(action_type)), ctx)

PlaylistEnd(params, ctx, result) ==
  LET action_type == Get(params, "action", None)
      payload == FirstText(result.content, EmptyObjectText).json
  IN
  IF result = None THEN Raise(NoAttribute(None, "isError"))
  ELSE IF action_type = Str("get")
  THEN IF result.isError THEN Ret(Error("Failed to get playlists"), ctx)
       ELSE IF payload = Undecodable \/ ~HasLen(payload)
       THEN Ret(Error("Failed to parse playlists"), ctx)
       ELSE Ret([action    |-> "playlist_get",
                 message   |-> "Found " \o ToString(PyLen(payload)) \o " playlists",
                 playlists |-> payload], ctx)
  ELSE IF action_type = Str("get_tracks")
  THEN IF result.isError THEN Ret(Error("Failed to get playlist tracks"), ctx)
       ELSE IF payload = Undecodable \/ ~HasLen(payload)
       THEN Ret(Error("Failed to parse playlist tracks"), ctx)
       ELSE Ret([action  |-> "playlist_get_tracks",
                 message |-> "Found " \o ToString(PyLen(payload)) \o " tracks in playlist",
                 tracks  |-> payload], ctx)
  ELSE IF action_type \in {Str("add_tracks"), Str("remove_tracks")}
  THEN IF result.isError
       THEN Ret(Error(IF action_type = Str("add_tracks")
                      THEN "Failed to add tracks" ELSE "Failed to remove tracks"), ctx)
       ELSE Ret([action  |-> "playlist_" \o Fmt(action_type),
                 message |-> "Tracks " \o (IF action_type = Str("add_tracks")
                                           THEN "added to" ELSE "removed from")
                             \o " playlist"], ctx)
  ELSE IF result.isError THEN Ret(Error("Failed to change playlist details"), ctx)
       ELSE Ret([action |-> "playlist_change_details",
                 message |-> "Playlist details updated"], ctx)

---------------------------------------------------------------------------
(* execute_single_action: the handler's code up to its awaited remote call *)
(* (Begin) and from the call's end on (End).                               *)

\* HandlerBegin that raises on a tool name it does not know
HandlerBeginRaise(tool_name, params, ctx) ==
  CASE tool_name = "SpotifySearch"   -> SearchBegin(params, ctx)
    [] tool_name = "SpotifyGetInfo"  -> GetInfoBegin(params, ctx)
    [] tool_name = "SpotifyPlayback" -> PlaybackBegin(params, ctx)
    [] tool_name = "SpotifyQueue"    -> QueueBegin(params, ctx)
    [] tool_name = "SpotifyPlaylist" -> PlaylistBegin(params, ctx)
    [] OTHER -> Raise("Unsupported action: " \o tool_name)

HandlerBegin(tool_name, params, ctx) ==
  CASE tool_name = "SpotifySearch"   -> SearchBegin(params, ctx)
    [] tool_name = "SpotifyGetInfo"  -> GetInfoBegin(params, ctx)
    [] tool_name = "SpotifyPlayback" -> PlaybackBegin(params, ctx)
    [] tool_name = "SpotifyQueue"    -> QueueBegin(params, ctx)
    [] tool_name = "SpotifyPlaylist" -> PlaylistBegin(params, ctx)
    [] OTHER -> Ret(Error("Unsupported action: " \o tool_name), ctx)

HandlerEnd(tool_name, params, ctx, result) ==
  CASE tool_name = "SpotifySearch"   -> SearchEnd(params, ctx, result)
    [] tool_name = "SpotifyGetInfo"  -> GetInfoEnd(params, ctx, result)
    [] tool_name = "SpotifyPlayback" -> PlaybackEnd(params, ctx, result)
    [] tool_name = "SpotifyQueue"    -> QueueEnd(params, ctx, result)
    [] OTHER                         -> PlaylistEnd(params, ctx, result)

---------------------------------------------------------------------------
(* format_final_response                                                   *)

IsError(r) == "error" \in DOMAIN r
IsSuccess(r) == "error" \notin DOMAIN r
Last(s) == s[Len(s)]

\* format_final_response reading [0] where [-1] is meant
FormatFirst(rs) ==
  LET all_errors == SelectSeq(rs, IsError)
      successful_actions == SelectSeq(rs, IsSuccess)
  IN
  IF all_errors # <<>>
  THEN IF Len(all_errors) = Len(rs)
       THEN [raised |-> FALSE, value |-> all_errors[1]]
       ELSE [raised |-> FALSE,
             value |-> [message |-> Get(successful_actions[1], "message", "Partial success")
                                    \o "\nSome actions failed",
                        details |-> [success |-> successful_actions[1],
                                     errors  |-> all_errors]]]
  ELSE IF rs = <<>>
  THEN [raised |-> TRUE, msg |-> "list index out of range"]
  ELSE [raised |-> FALSE,
        value |-> [message |-> Get(rs[1], "message", "Command executed successfully"),
                   details |-> rs[1]]]

\* format_final_response with the default message for an empty list
FormatEmptyDefault(rs) ==
  LET all_errors == SelectSeq(rs, IsError)
      successful_actions == SelectSeq(rs, IsSuccess)
  IN
  IF all_errors # <<>>
  THEN IF Len(all_errors) = Len(rs)
       THEN [raised |-> FALSE, value |-> Last(all_errors)]
       ELSE [raised |-> FALSE,
             value |-> [message |-> Get(Last(successful_actions), "message", "Partial success")
                                    \o "\nSome actions failed",
                        details |-> [success |-> Last(successful_actions),
                                     errors  |-> all_errors]]]
  ELSE IF rs = <<>>
  THEN [raised |-> FALSE,
        value |-> [message |-> "Command executed successfully", details |-> EmptyDict]]
  ELSE [raised |-> FALSE,
        value |-> [message |-> Get(Last(rs), "message", "Command executed successfully"),
                   details |-> Last(rs)]]

\* [raised |-> TRUE] when results[-1] raises IndexError
format_final_response(rs) ==
  LET all_errors == SelectSeq(rs, IsError)
      successful_actions == SelectSeq(rs, IsSuccess)
  IN
  IF all_errors # <<>>
  THEN IF Len(all_errors) = Len(rs)
       THEN [raised |-> FALSE, value |-> Last(all_errors)]
       ELSE [raised |-> FALSE,
             value |-> [message |-> Get(Last(successful_actions), "message", "Partial success")
                                    \o "\nSome actions failed",
                        details |-> [success |-> Last(successful_actions),
                                     errors  |-> all_errors]]]
  ELSE IF rs = <<>>
  THEN [raised |-> TRUE, msg |-> "list index out of range"]
  ELSE [raised |-> FALSE,
        value |-> [message |-> Get(Last(rs), "message", "Command executed successfully"),
                   details |-> Last(rs)]]

---------------------------------------------------------------------------
(* The inputs: the actions a caller may put in a list, and what the remote *)
(* session may answer to a call.                                           *)

Action(tool_name, params) == [tool_name |-> tool_name, params |-> params]

SearchSongA  == Action("SpotifySearch", [query |-> Str("Song A"), qtype |-> Str("track")])
SearchAlbumX == Action("SpotifySearch", [query |-> Str("Album X"), qtype |-> Str("album")])
GetInfoNull  == Action("SpotifyGetInfo", [item_uri |-> None])
PlayStart    == Action("SpotifyPlayback", [action |-> Str("start")])
PlayStartUri == Action("SpotifyPlayback", [action |-> Str("start"),
                                           spotify_uri |-> Str("spotify:track:t7")])
PlayPause    == Action("SpotifyPlayback", [action |-> Str("pause")])
QueueAddNull == Action("SpotifyQueue", [action |-> Str("add"), track_id |-> None])
QueueAddUri  == Action("SpotifyQueue", [action |-> Str("add"),
                                        track_id |-> Str("spotify:track:t7")])
PlaylistGet  == Action("SpotifyPlaylist", [action |-> Str("get")])
PlaylistGetTracksNoId == Action("SpotifyPlaylist", [action |-> Str("get_tracks")])
VolumeUp     == Action("SpotifyVolume", [level |-> Str("up")])

ActionUniverse ==
  {SearchSongA, SearchAlbumX, GetInfoNull, PlayStart, PlayStartUri, PlayPause,
   QueueAddNull, QueueAddUri, PlaylistGet, PlaylistGetTracksNoId, VolumeUp}

ActionLists == UNION {[1..n -> ActionUniverse] : n \in 0..MaxActions}

\* a JSON document: its characters are not modelled, its decoding is
\* marks a key that a dict does not have
Absent == [k |-> "absent"]

\* the dict of the keys of `full` that are not marked Absent
Only(full) == [key \in {x \in DOMAIN full : full[x] # Absent} |-> full[key]]

Json(v) == [raw |-> Fmt(v), json |-> v]

TrackT1 == Dict([name |-> Str("Song A"), id |-> Str("t1"), artist |-> Str("A")])
TrackT9 == Dict([name |-> Str("Song X1"), id |-> Str("t9"), artist |-> Str("B")])
AlbumX1 == Dict([name |-> Str("Album X"), id |-> Str("x1"),
                 artists |-> List(<<Str("B"), Str("C")>>)])

\* the payload a search for params' query finds
SearchHits(params) ==
  IF Get(params, "query", None) = Str("Album X")
  THEN Dict([albums |-> List(<<AlbumX1>>), tracks |-> List(<<TrackT9>>)])
  ELSE Dict([tracks |-> List(<<TrackT1>>)])

\* a search for anything: the remote answers with any of SearchPayloads
SearchAnyTrack == Action("SpotifySearch", [query |-> Str("anything"), qtype |-> Str("track")])
SearchAnyAlbum == Action("SpotifySearch", [query |-> Str("anything"), qtype |-> Str("album")])
SearchAnyBoth  == Action("SpotifySearch", [query |-> Str("anything"),
                                            qtype |-> Str("track,album")])
SearchAnyKind  == Action("SpotifySearch", [query |-> Str("anything")])

\* the items a search payload may list: with and without name and id, the
\* artist as a list, as a scalar, as both, or missing
SearchItems ==
  {Dict(Only([name    |-> n,
              id      |-> i,
              artists |-> l,
              artist  |-> a])) :
     n \in {Absent, Str("Item")},
     i \in {Absent, Str("track123")},
     l \in {Absent, List(<<>>), List(<<Str("Artist X")>>),
            List(<<Str("Artist X"), Str("Artist Y")>>), Str("Artist Z")},
     a \in {Absent, Str("Artist X"), Str("Artist Z")}}

\* the payloads SpotifySearch may answer params with
SearchPayloads(params) ==
  IF Get(params, "query", None) = Str("anything")
  THEN {Dict([tracks |-> List(<<item>>)]) : item \in SearchItems}
         \cup {Dict([albums |-> List(<<item>>)]) : item \in SearchItems}
         \cup {Dict([albums |-> List(<<item>>), tracks |-> List(<<TrackT9>>)]) :
                 item \in SearchItems}
         \cup {Dict([albums |-> List(<<>>), tracks |-> List(<<TrackT9>>)]),
               Dict([albums |-> List(<<>>), tracks |-> List(<<>>)]),
               Dict([tracks |-> List(<<Str("track123")>>)]),
               Dict([tracks |-> List(<<None>>)]),
               Dict([albums |-> List(<<Str("album123")>>)]),
               List(<<TrackT9>>), List(<<>>), Str("track123"), None}
         \cup {EmptyDict}
  ELSE {SearchHits(params), EmptyDict}

\* a result without any content, and one whose content has no text
NoContent == [isError |-> FALSE, content |-> <<>>]
NoTextContent == [isError |-> FALSE, content |-> <<[data |-> "image"]>>]

\* the results SpotifySearch may return besides a decodable payload
SearchOddReplies(params) ==
  IF Get(params, "query", None) = Str("anything")
  THEN {Ok(PlainText("<html>Bad Gateway</html>")), NoContent, NoTextContent,
        [isError |-> TRUE, content |-> <<>>]}
  ELSE {}

AlbumInfo == Dict([name |-> Str("Album X"),
                   tracks |-> List(<<Str("spotify:track:t9")>>)])
AlbumInfoY == Dict([name |-> Str("Album Y"),
                    tracks |-> List(<<Str("spotify:track:t8"), Str("spotify:track:t9")>>)])
Playlists == List(<<Dict([id |-> Str("p1"), name |-> Str("Mix")]),
                    Dict([id |-> Str("p2"), name |-> Str("Run")])>>)

\* the results SpotifyGetInfo may return for the item "anything" besides
\* the ones for an album
GetInfoOddReplies(params) ==
  IF Get(params, "item_uri", None) = Str("anything")
  THEN {Ok(PlainText("<html>Bad Gateway</html>")), NoContent,
        Ok(Json(List(<<Str("spotify:track:t9")>>))), Ok(Json(None)),
        Ok(Json(Dict([tracks |-> List(<<>>)]))), Ok(Json(Dict([tracks |-> None]))),
        Ok(Json(AlbumInfoY))}
  ELSE {}

\* the RemoteResults session.call_tool may return to a call
Replies(tool_name, params) ==
  CASE tool_name = "SpotifySearch" ->
         {Failed(PlainText("Search failed"))} \cup {Ok(Json(p)) : p \in SearchPayloads(params)}
           \cup SearchOddReplies(params)
    [] tool_name = "SpotifyGetInfo" ->
         {Failed(PlainText("Not found")), Ok(Json(AlbumInfo)),
          Ok(Json(Dict([name |-> Str("Album X")])))}
           \cup GetInfoOddReplies(params)
    [] tool_name = "SpotifyPlayback" ->
         {Failed(PlainText("No active device")), Ok(PlainText("Playback started"))}
    [] tool_name = "SpotifyQueue" ->
         {Failed(PlainText("No active device")), Ok(PlainText("Added to queue"))}
    [] OTHER ->
         {Failed(PlainText("Forbidden")), Ok(Json(Playlists))}

---------------------------------------------------------------------------
(* call_tool_with_retry                                                    *)

\* no record is kept of the session's answers
NoTrace == [on |-> FALSE, events |-> <<>>]

\* the session's answers are recorded from here on
NewTrace == [on |-> TRUE, events |-> <<>>]

\* the trace t after the session answered with ev
Record(t, ev) == IF t.on THEN [t EXCEPT !.events = Append(@, ev)] ELSE t

\* there is no second execution
NoOther == [pc |-> "none"]

\* execute_spotify_actions was not called by handle_command
NoHandler == [pc |-> "none"]

\* line 33: while retries < max_retries
MayAttempt(retries, max_retries) == retries < max_retries

\* Exhausted one attempt late: if retries > max_retries
ExhaustedLate(retries, max_retries) == retries > max_retries

\* line 39: if retries >= max_retries
Exhausted(retries, max_retries) == retries >= max_retries

\* Backoff growing by RETRY_DELAY with every failed attempt
BackoffLinear(retries) == RETRY_DELAY * retries

\* line 44: the delay of the sleep after `retries` failed attempts
Backoff(retries) == RETRY_DELAY * Pow2(retries - 1)

\* lines 33-35: the loop test and, when it passes, session.call_tool is
\* called; when it fails the function falls off its end and returns None
Attempt ==
  /\ pc = "call"
  /\ IF MayAttempt(frame.retries, frame.max_retries)
     THEN /\ calls' = Append(calls, [tool_name |-> frame.tool_name,
                                     params    |-> frame.params,
                                     step      |-> idx,
                                     nresults  |-> Len(results),
                                     context   |-> context,
                                     status    |-> "pending",
                                     result    |-> None,
                                     exc       |-> ""])
          /\ outstanding' = outstanding + 1
          /\ pc' = "await"
          /\ UNCHANGED frame
     ELSE /\ frame' = [frame EXCEPT !.result = None]
          /\ pc' = "returned"
          /\ UNCHANGED <<calls, outstanding>>
  /\ UNCHANGED <<handler, trace, other, input, actions, idx, results, context, response, sleeps,
                 dispatches, formatted>>

\* ReplyResult that counts a result reporting an error as a failed attempt
ReplyResultRetriesError ==
  /\ pc = "await"
  /\ \E r \in Replies(frame.tool_name, frame.params) :
       /\ calls' = [calls EXCEPT ![Len(calls)].status = "returned",
                                 ![Len(calls)].result = r]
       /\ trace' = Record(trace, [raised |-> FALSE, result |-> r])
       /\ IF r.isError /\ ~Exhausted(frame.retries + 1, frame.max_retries)
          THEN /\ frame' = [frame EXCEPT !.retries = frame.retries + 1]
               /\ pc' = "sleep"
               /\ sleeps' = Append(sleeps, Backoff(frame.retries + 1))
          ELSE /\ frame' = [frame EXCEPT !.result = r]
               /\ pc' = "returned"
               /\ UNCHANGED sleeps
  /\ outstanding' = outstanding - 1
  /\ UNCHANGED <<handler, other, input, actions, idx, results, context, response,
                 dispatches, formatted>>

\* lines 35-36: the awaited call returns a result, which is returned
ReplyResult ==
  /\ pc = "await"
  /\ \E r \in Replies(frame.tool_name, frame.params) :
       /\ frame' = [frame EXCEPT !.result = r]
       /\ calls' = [calls EXCEPT ![Len(calls)].status = "returned",
                                 ![Len(calls)].result = r]
       /\ trace' = Record(trace, [raised |-> FALSE, result |-> r])
  /\ outstanding' = outstanding - 1
  /\ pc' = "returned"
  /\ UNCHANGED <<handler, other, input, actions, idx, results, context, response, sleeps,
                 dispatches, formatted>>

\* lines 37-44: the awaited call raises; the exception is raised again when
\* the attempts are exhausted, and the backoff sleep starts otherwise
ReplyException ==
  /\ pc = "await"
  /\ LET retries == frame.retries + 1 IN
     /\ frame' = [frame EXCEPT !.retries = retries, !.exc = CallFailure(Len(calls))]
     /\ IF Exhausted(retries, frame.max_retries)
        THEN pc' = "raised" /\ UNCHANGED sleeps
        ELSE pc' = "sleep" /\ sleeps' = Append(sleeps, Backoff(retries))
  /\ calls' = [calls EXCEPT ![Len(calls)].status = "raised",
                            ![Len(calls)].exc = CallFailure(Len(calls))]
  /\ trace' = Record(trace, [raised |-> TRUE, exc |-> CallFailure(Len(calls))])
  /\ outstanding' = outstanding - 1
  /\ UNCHANGED <<handler, other, input, actions, idx, results, context, response,
                 dispatches, formatted>>

\* line 44: the sleep ends and the loop goes round
Wake ==
  /\ pc = "sleep"
  /\ pc' = "call"
  /\ UNCHANGED <<handler, trace, other, input, actions, idx, results, context, response, frame, calls,
                 sleeps, outstanding, dispatches, formatted>>

---------------------------------------------------------------------------
(* execute_spotify_actions                                                 *)

\* IsCritical testing the outcome's action name where the tool's name is meant
IsCriticalByAction(tool_name, result) == IsError(result) /\ tool_name = "search"

\* IsCritical for which any failed step ends the sequence
IsCriticalAnyError(tool_name, result) == IsError(result)

\* line 514: the step's failure ends the sequence
IsCritical(tool_name, result) == IsError(result) /\ tool_name = "SpotifySearch"

\* ContextUpdate that keeps the first search result
ContextUpdateKeepFirst(ctx, result) ==
  IF IsError(result) THEN ctx
  ELSE IF Get(result, "action", "") = "search"
  THEN IF Truthy(Get(ctx, "search_result", None)) THEN ctx
       ELSE Put(ctx, "search_result", Get(result, "result", None))
  ELSE IF Get(result, "action", "") = "get_info"
  THEN Put(ctx, "album_info", Get(result, "result", None))
  ELSE ctx

\* lines 519-525
ContextUpdate(ctx, result) ==
  IF IsError(result) THEN ctx
  ELSE IF Get(result, "action", "") = "search"
  THEN Put(ctx, "search_result", Get(result, "result", None))
  ELSE IF Get(result, "action", "") = "get_info"
  THEN Put(ctx, "album_info", Get(result, "result", None))
  ELSE ctx

\* NextIndex that skips an action
NextIndexSkip(i) == i + 2

\* the loop moves to the next action of the list
NextIndex(i) == i + 1

\* Caught for `except (KeyError, IndexError)`
CaughtLookupErrors(msg) == msg = "list index out of range"

\* line 528: `except Exception` catches what a step or the formatter raises
Caught(msg) == TRUE

\* Finish that makes an error outcome of the exception and goes on
FinishRecordsException(tool_name, step) ==
  LET outcome == IF step.kind = "raise" THEN Error(step.msg) ELSE step.outcome
      ctx == IF step.kind = "raise" THEN context ELSE step.context
  IN
  /\ results' = Append(results, outcome)
  /\ IF IsCritical(tool_name, outcome)
     THEN /\ response' = outcome
          /\ pc' = "done"
          /\ context' = ctx
          /\ UNCHANGED idx
     ELSE /\ context' = ContextUpdate(ctx, outcome)
          /\ idx' = NextIndex(idx)
          /\ pc' = "loop"
          /\ UNCHANGED response

\* lines 511-525 for the step's outcome; lines 528-530 when the step raised
Finish(tool_name, step) ==
  IF step.kind = "raise"
  THEN /\ IF Caught(step.msg)
          THEN response' = Error(step.msg) /\ pc' = "done"
          ELSE pc' = "crashed" /\ UNCHANGED response
       /\ UNCHANGED <<idx, results, context>>
  ELSE /\ results' = Append(results, step.outcome)
       /\ IF IsCritical(tool_name, step.outcome)
          THEN /\ response' = step.outcome
               /\ pc' = "done"
               /\ context' = step.context
               /\ UNCHANGED idx
          ELSE /\ context' = ContextUpdate(step.context, step.outcome)
               /\ idx' = NextIndex(idx)
               /\ pc' = "loop"
               /\ UNCHANGED response

\* lines 505-510: the next action is dispatched and its handler runs up to
\* its remote call, or to its end when it makes none
Dispatch ==
  /\ pc = "loop"
  /\ idx <= Len(actions)
  /\ LET tool_name == actions[idx].tool_name
         step == HandlerBegin(tool_name, actions[idx].params, context)
     IN
     IF step.kind = "call"
     THEN /\ actions' = [actions EXCEPT ![idx].params = step.params]
          /\ frame' = NewFrame(step.tool_name, step.params, MAX_RETRIES)
          /\ pc' = "call"
          /\ UNCHANGED <<idx, results, context, response>>
     ELSE /\ Finish(tool_name, step)
          /\ frame' = NoFrame
          /\ UNCHANGED actions
  /\ dispatches' = dispatches + 1
  /\ calls' = <<>>
  /\ sleeps' = <<>>
  /\ UNCHANGED <<handler, trace, other, input, outstanding, formatted>>

\* the handler goes on from its remote call to its end, and the executor
\* handles the outcome
Resume ==
  /\ pc \in {"returned", "raised"}
  /\ idx \in 1..Len(actions)
  /\ LET tool_name == actions[idx].tool_name IN
     Finish(tool_name,
            IF pc = "raised" THEN Raise(frame.exc)
            ELSE HandlerEnd(tool_name, actions[idx].params, context, frame.result))
  /\ UNCHANGED <<handler, trace, other, input, actions, frame, calls, sleeps, outstanding, dispatches, formatted>>

\* line 527 (and 528-530 when the formatter raises)
Complete ==
  /\ pc = "loop"
  /\ idx > Len(actions)
  /\ LET f == format_final_response(results) IN
     IF f.raised /\ ~Caught(f.msg)
     THEN pc' = "crashed" /\ UNCHANGED response
     ELSE /\ response' = IF f.raised THEN Error(f.msg) ELSE f.value
          /\ pc' = "done"
  /\ formatted' = TRUE
  /\ UNCHANGED <<handler, trace, other, input, actions, idx, results, context, frame, calls, sleeps,
                 outstanding, dispatches>>

---------------------------------------------------------------------------
(* The executor on every action list of the universe.                      *)

Init ==
  /\ input \in ActionLists
  /\ actions = input
  /\ idx = 1
  /\ pc = "loop"
  /\ results = <<>>
  /\ context = [search_result |-> None, album_tracks |-> None]
  /\ response = None
  /\ frame = NoFrame
  /\ calls = <<>>
  /\ sleeps = <<>>
  /\ outstanding = 0
  /\ dispatches = 0
  /\ formatted = FALSE
  /\ trace = NoTrace
  /\ other = NoOther
  /\ handler = NoHandler

Next == Dispatch \/ Attempt \/ ReplyResult \/ ReplyException \/ Wake \/ Resume \/ Complete

Spec == Init /\ [][Next]_vars

(* call_tool_with_retry called directly, with any max_retries.             *)

DirectCalls == {SearchSongA, PlayPause, PlaylistGet}

InitRetry ==
  /\ input = <<>>
  /\ actions = <<>>
  /\ idx = 1
  /\ pc = "call"
  /\ results = <<>>
  /\ context = [search_result |-> None, album_tracks |-> None]
  /\ response = None
  /\ \E a \in DirectCalls, m \in (0 - 1)..MaxAttempts :
       frame = NewFrame(a.tool_name, a.params, m)
  /\ calls = <<>>
  /\ sleeps = <<>>
  /\ outstanding = 0
  /\ dispatches = 0
  /\ formatted = FALSE
  /\ trace = NoTrace
  /\ other = NoOther
  /\ handler = NoHandler

NextRetry == Attempt \/ ReplyResult \/ ReplyException \/ Wake

SpecRetry == InitRetry /\ [][NextRetry]_vars

(* The executor on steps with every combination of the parameters the      *)
(* handlers validate, alone and after a successful or failed search.       *)

PlaylistActions ==
  {Absent, Str("get_tracks"), Str("add_tracks"), Str("remove_tracks"),
   Str("change_details"), Str("shuffle")}

PlaylistSteps ==
  {Action("SpotifyPlaylist", Only([action      |-> a,
                                   playlist_id |-> p,
                                   track_ids   |-> t,
                                   name        |-> n,
                                   description |-> d])) :
     a \in PlaylistActions,
     p \in {Absent, None, Str("p1")},
     t \in {Absent, List(<<>>), List(<<Str("spotify:track:t1")>>)},
     n \in {Absent, Str("Mix 2")},
     d \in {Absent, Str("")}}

QueueSteps ==
  {QueueAddNull, QueueAddUri,
   Action("SpotifyQueue", [action |-> Str("add")]),
   Action("SpotifyQueue", [action |-> Str("add"), track_id |-> Str("")])}

ValidatedLists ==
  {<<a>> : a \in PlaylistSteps \cup QueueSteps}
    \cup {<<SearchSongA, a>> : a \in PlaylistSteps \cup QueueSteps}

\* lines 501-503: the executor starts on the list it was handed
Started ==
  /\ actions = input
  /\ idx = 1
  /\ pc = "loop"
  /\ results = <<>>
  /\ context = [search_result |-> None, album_tracks |-> None]
  /\ response = None
  /\ frame = NoFrame
  /\ calls = <<>>
  /\ sleeps = <<>>
  /\ outstanding = 0
  /\ dispatches = 0
  /\ formatted = FALSE
  /\ trace = NoTrace
  /\ other = NoOther
  /\ handler = NoHandler

InitValidation == input \in ValidatedLists /\ Started

SpecValidation == InitValidation /\ [][Next]_vars

(* The executor on one search, answered with any payload.                  *)

InitSearch ==
  /\ input \in {<<SearchAnyTrack>>, <<SearchAnyAlbum>>, <<SearchAnyBoth>>, <<SearchAnyKind>>}
  /\ Started

SpecSearch == InitSearch /\ [][Next]_vars

(* The executor on a step of any kind with any parameters, alone or after  *)
(* one or two searches, and with or without a step after it.               *)

PlaybackSteps ==
  {Action("SpotifyPlayback", Only([action |-> a, spotify_uri |-> u])) :
     a \in {Absent, Str("start"), Str("pause"), Str("skip"), Str("seek")},
     u \in {Absent, None, Str(""), Str("spotify:track:t7")}}

GetInfoSteps ==
  {Action("SpotifyGetInfo", Only([item_uri |-> u])) :
     u \in {Absent, None, Str("spotify:album:a7"), Str("anything")}}

ContextSteps ==
  PlaybackSteps \cup QueueSteps \cup GetInfoSteps
    \cup {VolumeUp, PlaylistGet, PlaylistGetTracksNoId}

OtherSteps ==
  PlaylistSteps \cup {SearchAnyTrack, SearchAnyAlbum, SearchAnyBoth, SearchAnyKind}

StepLists ==
  {before \o <<a>> \o after :
     before \in {<<>>, <<SearchSongA>>, <<SearchSongA, SearchAlbumX>>},
     a \in ContextSteps,
     after \in {<<>>, <<PlayPause>>}}
    \cup {<<a>> \o after : a \in OtherSteps, after \in {<<>>, <<PlayPause>>}}

InitSteps == input \in StepLists /\ Started

SpecSteps == InitSteps /\ [][Next]_vars

(* The executor on one or two GetInfo steps, alone or after a search.       *)

InfoLists ==
  {<<g>> : g \in GetInfoSteps}
    \cup {before \o <<g, h>> : before \in {<<>>, <<SearchAlbumX>>},
                               g \in GetInfoSteps, h \in GetInfoSteps}

InitInfo == input \in InfoLists /\ Started

SpecInfo == InitInfo /\ [][Next]_vars

(* The executor with a record of every answer of the session.              *)

CountedLists ==
  {<<>>, <<PlayPause>>, <<VolumeUp, PlayPause>>, <<SearchSongA, PlayStart>>,
   <<GetInfoNull, PlaylistGet>>, <<SearchSongA, QueueAddNull, PlayPause>>}

InitCounted ==
  /\ input \in CountedLists
  /\ actions = input
  /\ idx = 1
  /\ pc = "loop"
  /\ results = <<>>
  /\ context = [search_result |-> None, album_tracks |-> None]
  /\ response = None
  /\ frame = NoFrame
  /\ calls = <<>>
  /\ sleeps = <<>>
  /\ outstanding = 0
  /\ dispatches = 0
  /\ formatted = FALSE
  /\ trace = NewTrace
  /\ other = NoOther
  /\ handler = NoHandler

SpecCounted == InitCounted /\ [][Next]_vars

(* The executor when every remote call is answered, every sleep ends and   *)
(* the event loop runs the coroutine whenever it can go on.                *)

SpecLive == InitSteps /\ [][Next]_vars /\ WF_vars(Next)

(* The executor on a search answered with any payload and a step that     *)
(* uses what was found.                                                    *)

UriLists ==
  {<<s, a>> : s \in {SearchSongA, SearchAnyTrack, SearchAnyAlbum},
              a \in {PlayStart, PlayStartUri, PlayPause, QueueAddNull}}

InitUri == input \in UriLists /\ Started

SpecUri == InitUri /\ [][Next]_vars

(* Two executions of execute_spotify_actions on one event loop.  The       *)
(* variables hold the locals of the execution that runs; `other` holds the *)
(* locals of the one that is suspended.                                    *)

\* the locals of the running execution
Execution ==
  [input       |-> input,
   actions     |-> actions,
   idx         |-> idx,
   pc          |-> pc,
   results     |-> results,
   context     |-> context,
   response    |-> response,
   frame       |-> frame,
   calls       |-> calls,
   sleeps      |-> sleeps,
   outstanding |-> outstanding,
   dispatches  |-> dispatches,
   formatted   |-> formatted,
   trace       |-> trace]

\* the locals of an execution that has been called with `list` and not run yet
NewExecution(list) ==
  [input       |-> list,
   actions     |-> list,
   idx         |-> 1,
   pc          |-> "loop",
   results     |-> <<>>,
   context     |-> [search_result |-> None, album_tracks |-> None],
   response    |-> None,
   frame       |-> NoFrame,
   calls       |-> <<>>,
   sleeps      |-> <<>>,
   outstanding |-> 0,
   dispatches  |-> 0,
   formatted   |-> FALSE,
   trace       |-> NewTrace]

\* the coroutine gives way at an await, or has returned
GivesWay == pc \in {"await", "sleep", "done", "crashed"}

\* Switch with `context` a module-level dict that both executions use
SwitchSharedContext ==
  /\ other # NoOther
  /\ GivesWay
  /\ other' = Execution
  /\ input' = other.input
  /\ actions' = other.actions
  /\ idx' = other.idx
  /\ pc' = other.pc
  /\ results' = other.results
  /\ context' = context
  /\ response' = other.response
  /\ frame' = other.frame
  /\ calls' = other.calls
  /\ sleeps' = other.sleeps
  /\ outstanding' = other.outstanding
  /\ dispatches' = other.dispatches
  /\ formatted' = other.formatted
  /\ trace' = other.trace
  /\ UNCHANGED handler

\* lines 35 and 44: at an await the event loop runs the other execution
Switch ==
  /\ other # NoOther
  /\ GivesWay
  /\ other' = Execution
  /\ input' = other.input
  /\ actions' = other.actions
  /\ idx' = other.idx
  /\ pc' = other.pc
  /\ results' = other.results
  /\ context' = other.context
  /\ response' = other.response
  /\ frame' = other.frame
  /\ calls' = other.calls
  /\ sleeps' = other.sleeps
  /\ outstanding' = other.outstanding
  /\ dispatches' = other.dispatches
  /\ formatted' = other.formatted
  /\ trace' = other.trace
  /\ UNCHANGED handler

FirstLists == {<<SearchSongA, QueueAddNull>>, <<PlayStart>>}
SecondLists == {<<SearchAlbumX, PlayStart>>, <<QueueAddNull>>}

InitTwo ==
  /\ input \in FirstLists
  /\ actions = input
  /\ idx = 1
  /\ pc = "loop"
  /\ results = <<>>
  /\ context = [search_result |-> None, album_tracks |-> None]
  /\ response = None
  /\ frame = NoFrame
  /\ calls = <<>>
  /\ sleeps = <<>>
  /\ outstanding = 0
  /\ dispatches = 0
  /\ formatted = FALSE
  /\ trace = NewTrace
  /\ other \in {NoOther} \cup {NewExecution(list) : list \in SecondLists}
  /\ handler = NoHandler

NextTwo == Next \/ Switch

SpecTwo == InitTwo /\ [][NextTwo]_vars

---------------------------------------------------------------------------
(* client.handle_command: the command is parsed, the connection and the    *)
(* session are opened, the session is initialized and the executor is      *)
(* called on the parsed actions.                                           *)

\* what parse_command_with_llm may return: an error object of its own, the
\* error object of the model, or a list of actions
ParseResults ==
  {[error |-> "Failed to parse command: Connection error."],
   [error |-> "Received empty response from LLM"],
   [error |-> "Unsupported command"],
   List(<<>>), List(<<PlayPause>>), List(<<SearchSongA>>),
   List(<<SearchSongA, PlayStart>>)}

\* Python's `key in container` for a list and for a dict
PyIn(key, container) ==
  IF "k" \in DOMAIN container /\ container.k = "list"
  THEN \E i \in 1..Len(container.l) : container.l[i] = Str(key)
  ELSE key \in DOMAIN container

\* ParseFailed that takes every parse result for a list of actions
ParseFailedNever(parsed) == FALSE

\* line 79: if "error" in actions
ParseFailed(parsed) == PyIn("error", parsed)

\* HandlerCaught for `except ConnectionError`
HandlerCaughtConnection(msg) == msg = "Connection failed"

\* line 91: `except Exception` catches what lines 85-90 raise
HandlerCaught(msg) == TRUE

\* lines 91-93 for an exception raised inside the try statement
Fail(msg) ==
  IF HandlerCaught(msg)
  THEN [handler EXCEPT !.raised = msg, !.response = Error(msg), !.pc = "responded"]
  ELSE [handler EXCEPT !.raised = msg, !.pc = "crashed"]

\* lines 78-80
ParseCommand ==
  /\ handler.pc = "parse"
  /\ \E parsed \in ParseResults :
       handler' = IF ParseFailed(parsed)
                  THEN [handler EXCEPT !.actions = parsed, !.response = parsed,
                                       !.pc = "responded"]
                  ELSE [handler EXCEPT !.actions = parsed, !.pc = "connect"]
  /\ UNCHANGED <<input, actions, idx, pc, results, context, response, frame, calls,
                 sleeps, outstanding, dispatches, formatted, trace, other>>

\* line 85: streamablehttp_client is entered, or raises
OpenConnection ==
  /\ handler.pc = "connect"
  /\ \/ handler' = [handler EXCEPT !.opened = TRUE, !.pc = "enter"]
     \/ handler' = Fail("Connection failed")
  /\ UNCHANGED <<input, actions, idx, pc, results, context, response, frame, calls,
                 sleeps, outstanding, dispatches, formatted, trace, other>>

\* line 86: ClientSession is entered, or raises
EnterSession ==
  /\ handler.pc = "enter"
  /\ \/ handler' = [handler EXCEPT !.entered = TRUE, !.pc = "initialize"]
     \/ handler' = Fail("Session failed")
  /\ UNCHANGED <<input, actions, idx, pc, results, context, response, frame, calls,
                 sleeps, outstanding, dispatches, formatted, trace, other>>

\* line 87: await session.initialize() returns, or raises
InitializeSession ==
  /\ handler.pc = "initialize"
  /\ \/ handler' = [handler EXCEPT !.initialized = TRUE, !.pc = "execute"]
     \/ handler' = Fail("Session init failed")
  /\ UNCHANGED <<input, actions, idx, pc, results, context, response, frame, calls,
                 sleeps, outstanding, dispatches, formatted, trace, other>>

\* line 88: execute_spotify_actions is called on the parsed actions
\* (lines 501-503 of spotify_actions.py)
StartExecution ==
  /\ handler.pc = "execute"
  /\ handler' = [handler EXCEPT !.pc = "executing"]
  /\ input' = handler.actions.l
  /\ actions' = handler.actions.l
  /\ idx' = 1
  /\ pc' = "loop"
  /\ results' = <<>>
  /\ context' = [search_result |-> None, album_tracks |-> None]
  /\ UNCHANGED <<response, frame, calls, sleeps, outstanding, dispatches, formatted,
                 trace, other>>

\* lines 88-90: the executor has returned and its value is what the
\* handler returns
ReturnResult ==
  /\ handler.pc = "executing"
  /\ pc = "done"
  /\ handler' = [handler EXCEPT !.response = response, !.pc = "close"]
  /\ UNCHANGED <<input, actions, idx, pc, results, context, response, frame, calls,
                 sleeps, outstanding, dispatches, formatted, trace, other>>

\* lines 85-86: the return leaves both `async with` blocks; an exit that
\* raises replaces the value being returned
CloseSession ==
  /\ handler.pc = "close"
  /\ \/ handler' = [handler EXCEPT !.pc = "responded"]
     \/ handler' = Fail("Session close failed")
  /\ UNCHANGED <<input, actions, idx, pc, results, context, response, frame, calls,
                 sleeps, outstanding, dispatches, formatted, trace, other>>

\* line 75: a command was received and execute_spotify_actions is not running
InitCommand ==
  /\ handler = [pc |-> "parse", actions |-> None, opened |-> FALSE, entered |-> FALSE,
                initialized |-> FALSE, raised |-> "", response |-> None]
  /\ input = <<>>
  /\ actions = <<>>
  /\ idx = 1
  /\ pc = "idle"
  /\ results = <<>>
  /\ context = [search_result |-> None, album_tracks |-> None]
  /\ response = None
  /\ frame = NoFrame
  /\ calls = <<>>
  /\ sleeps = <<>>
  /\ outstanding = 0
  /\ dispatches = 0
  /\ formatted = FALSE
  /\ trace = NoTrace
  /\ other = NoOther

NextCommand ==
  \/ ParseCommand \/ OpenConnection \/ EnterSession \/ InitializeSession
  \/ StartExecution \/ ReturnResult \/ CloseSession
  \/ Next

SpecCommand == InitCommand /\ [][NextCommand]_vars

---------------------------------------------------------------------------
(* Properties.                                                             *)

IsSearchSuccess(r) == IsSuccess(r) /\ Get(r, "action", "") = "search"
IsGetInfoSuccess(r) == IsSuccess(r) /\ Get(r, "action", "") = "get_info"

\* the result of the last successful search among the outcomes rs, or None
LastSearch(rs) ==
  LET S == {i \in 1..Len(rs) : IsSearchSuccess(rs[i])} IN
  IF S = {} THEN None ELSE rs[CHOOSE i \in S : \A j \in S : j <= i].result

Prefix(s, n) == SubSeq(s, 1, n)

\* the calls of the current step that carry tool_name
CallsTo(tool_name) == {j \in 1..Len(calls) : calls[j].tool_name = tool_name}

\* a step's remote calls all raised: the retrying invoker gave up
RetriesExhausted ==
  /\ Len(calls) = MAX_RETRIES
  /\ \A j \in 1..Len(calls) : calls[j].status = "raised"

\* C1: a Search step at any position i whose outcome is an error record ends
\* the sequence: that record is the value returned, i steps were dispatched
\* and no more, and the Response Formatter is not run.
C1_SearchErrorStops ==
  \A i \in 1..Len(results) :
    (IsError(results[i]) /\ input[i].tool_name = "SpotifySearch")
      => /\ pc = "done"
         /\ response = results[i]
         /\ Len(results) = i
         /\ dispatches = i
         /\ idx = i
         /\ ~formatted

\* a Search fails at position 2 after a successful step, with a step left
C1_Witness ==
  /\ Len(input) = 3
  /\ Len(results) = 2
  /\ IsSuccess(results[1])
  /\ IsError(results[2])
  /\ input[2].tool_name = "SpotifySearch"
  /\ pc = "done"

\* {error: string} or {message: string, details: object}
WellFormed(r) ==
  \/ DOMAIN r = {"error"} /\ r.error \in STRING
  \/ /\ DOMAIN r = {"message", "details"}
     /\ r.message \in STRING
     /\ DOMAIN r.details # {}

\* C2: execute_spotify_actions never raises to its caller, and what it
\* returns is a well-formed FinalResponse, whatever the session does.
C2_NeverRaises ==
  /\ pc # "crashed"
  /\ pc = "done" => WellFormed(response)

\* the session raised on every attempt of a step, and the executor returned
C2_Witness ==
  /\ pc = "done"
  /\ RetriesExhausted
  /\ DOMAIN response = {"error"}

\* C3 (as claimed): when every attempt of a non-Search step's remote call
\* raises, the failure is one error outcome in the results list, the
\* remaining steps are dispatched and the Response Formatter builds the
\* final response from all outcomes.
C3_ExhaustionBecomesOutcome ==
  (/\ pc = "done"
   /\ RetriesExhausted
   /\ calls[1].tool_name # "SpotifySearch")
    => /\ Len(results) >= calls[1].step
       /\ IsError(results[calls[1].step])
       /\ formatted

\* C4: call_tool_with_retry with max_retries = m >= 1, the session raising
\* on its first k calls: k < m gives k+1 calls and the result of call k+1;
\* k >= m gives m calls and the exception of call m; no call follows a call
\* that returned.
C4_RetryCounts ==
  LET m == frame.max_retries
      k == Cardinality({j \in 1..Len(calls) : calls[j].status = "raised"})
  IN m >= 1 =>
       /\ Len(calls) <= m
       /\ \A j \in 1..(Len(calls) - 1) : calls[j].status = "raised"
       /\ pc = "returned" => /\ k < m
                             /\ Len(calls) = k + 1
                             /\ calls[k + 1].status = "returned"
                             /\ frame.result = calls[k + 1].result
                             /\ frame.result # None
       /\ pc = "raised" => /\ k = m
                           /\ Len(calls) = m
                           /\ frame.exc = CallFailure(m)
       /\ (pc = "call" /\ frame.retries > 0) => frame.retries < m

\* max_retries = 3, two failures, then a result (the spec's case)
C4_Witness ==
  /\ frame.max_retries = 3
  /\ pc = "returned"
  /\ Len(calls) = 3
  /\ calls[2].status = "raised"

\* max_retries = 2 and a session that always fails
C4_WitnessExhausted ==
  /\ frame.max_retries = 2
  /\ pc = "raised"
  /\ Len(calls) = 2

\* C5: the context's search_result is the result of the most recent
\* successful Search outcome, at every moment and at every remote call of a
\* later step; an earlier search leaves nothing in it.
C5_LastSearchInContext ==
  /\ context["search_result"] = LastSearch(results)
  /\ \A j \in 1..Len(calls) :
       calls[j].context["search_result"] = LastSearch(Prefix(results, calls[j].nresults))

\* two searches succeeded with different results and a later step is calling
C5_Witness ==
  /\ Len(results) = 2
  /\ IsSearchSuccess(results[1])
  /\ IsSearchSuccess(results[2])
  /\ results[1].result # results[2].result
  /\ context["search_result"] = results[2].result
  /\ pc = "await"

\* C6: a step whose outcome is an error record leaves the context as it
\* was; the context changes only with a successful Search or GetInfo.
C6_FailedStepKeepsContext ==
  [][/\ (Len(results') = Len(results) + 1 /\ IsError(Last(results')))
          => context' = context
     /\ context' # context
          => /\ Len(results') = Len(results) + 1
             /\ IsSearchSuccess(Last(results')) \/ IsGetInfoSuccess(Last(results'))]_vars

\* a GetInfo failed after a Search and a GetInfo had filled the context
C6_Witness ==
  /\ Len(results) = 3
  /\ IsError(results[3])
  /\ input[3].tool_name = "SpotifyGetInfo"
  /\ context["search_result"] # None
  /\ context["album_tracks"] # None

\* C7: the steps run in list order and one at a time: a remote call belongs
\* to the step dispatched last, that step is the next of the list, the
\* outcomes of all steps before it are in the results list and in the
\* context, and at most one remote call is outstanding.
C7_Sequential ==
  /\ outstanding \in {0, 1}
  /\ outstanding = 1 <=> pc = "await"
  /\ Len(results) <= dispatches
  /\ \A j \in 1..Len(calls) :
       /\ calls[j].step = dispatches
       /\ calls[j].nresults = calls[j].step - 1
       /\ calls[j].tool_name = input[calls[j].step].tool_name
       /\ calls[j].context["search_result"] = LastSearch(Prefix(results, calls[j].step - 1))
       /\ "album_info" \in DOMAIN calls[j].context
            <=> \E i \in 1..(calls[j].step - 1) : IsGetInfoSuccess(results[i])

\* the third step's remote call is outstanding
C7_Witness ==
  /\ pc = "await"
  /\ outstanding = 1
  /\ idx = 3
  /\ Len(results) = 2
  /\ Len(calls) = 2

\* a Playback start that names no spotify_uri
IsStartNoUri(a) ==
  /\ a.tool_name = "SpotifyPlayback"
  /\ Get(a.params, "action", None) = Str("start")
  /\ "spotify_uri" \notin DOMAIN a.params

\* C8: for [Search(qtype track), Playback(start, no spotify_uri)] where the
\* payload's first track has id T, name N and artist A and both remote
\* calls return without error, the SpotifyPlayback call carries
\* spotify_uri = "spotify:track:T" and the FinalResponse's message is
\* "Playing track N by A" ("Playing track Song A by A" in the spec's case).
C8_PlaySong ==
  (/\ Len(input) = 2
   /\ input[1].tool_name = "SpotifySearch"
   /\ Get(input[1].params, "qtype", None) = Str("track")
   /\ IsStartNoUri(input[2])
   /\ Len(results) >= 1
   /\ IsSuccess(results[1]))
    => LET track == SearchHits(input[1].params).d["tracks"].l[1].d IN
       /\ \A j \in CallsTo("SpotifyPlayback") :
            calls[j].params["spotify_uri"] = Str("spotify:track:" \o track["id"].s)
       /\ (pc = "done" /\ Len(results) = 2 /\ IsSuccess(results[2]))
            => /\ response.message
                    = "Playing track " \o track["name"].s \o " by " \o track["artist"].s
               /\ input[1] = SearchSongA => response.message = "Playing track Song A by A"

\* the song was found and played
C8_Witness ==
  /\ input = <<SearchSongA, PlayStart>>
  /\ pc = "done"
  /\ Len(results) = 2
  /\ IsSuccess(results[1])
  /\ IsSuccess(results[2])
  /\ calls[Len(calls)].tool_name = "SpotifyPlayback"

\* C9: for [Search(qtype album), GetInfo(item_uri null), Queue(add,
\* track_id null)] where the search succeeds with album id X, the
\* SpotifyGetInfo call carries item_uri = "spotify:album:X" and the
\* SpotifyQueue call carries track_id = "spotify:album:X".
C9_QueueAlbum ==
  (/\ Len(input) = 3
   /\ input[1].tool_name = "SpotifySearch"
   /\ Get(input[1].params, "qtype", None) = Str("album")
   /\ input[2] = GetInfoNull
   /\ input[3] = QueueAddNull
   /\ Len(results) >= 1
   /\ IsSuccess(results[1]))
    => LET album == SearchHits(input[1].params).d["albums"].l[1].d
           uri == Str("spotify:album:" \o album["id"].s)
       IN
       /\ \A j \in CallsTo("SpotifyGetInfo") : calls[j].params["item_uri"] = uri
       /\ \A j \in CallsTo("SpotifyQueue") : calls[j].params["track_id"] = uri

\* the album was found, looked up and queued
C9_Witness ==
  /\ input = <<SearchAlbumX, GetInfoNull, QueueAddNull>>
  /\ Len(results) = 3
  /\ IsGetInfoSuccess(results[2])
  /\ IsSuccess(results[3])
  /\ CallsTo("SpotifyQueue") # {}

\* C10: a Playback start with no spotify_uri, run while the context holds
\* no search result, calls the remote tool without a spotify_uri parameter;
\* when the call returns without error the outcome's message is "Resuming
\* playback", and so is the FinalResponse's when it is the only action.
C10_Resume ==
  /\ \A j \in CallsTo("SpotifyPlayback") :
       (IsStartNoUri(input[calls[j].step]) /\ calls[j].context["search_result"] = None)
         => "spotify_uri" \notin DOMAIN calls[j].params
  /\ \A i \in 1..Len(results) :
       (/\ IsStartNoUri(input[i])
        /\ LastSearch(Prefix(results, i - 1)) = None
        /\ IsSuccess(results[i]))
         => results[i].message = "Resuming playback"
  /\ (/\ Len(input) = 1
      /\ IsStartNoUri(input[1])
      /\ pc = "done"
      /\ Len(results) = 1
      /\ IsSuccess(results[1]))
       => response.message = "Resuming playback"

\* the single action Playback(start) succeeded
C10_Witness ==
  /\ input = <<PlayStart>>
  /\ pc = "done"
  /\ Len(calls) = 1
  /\ calls[1].status = "returned"
  /\ IsSuccess(results[1])

---------------------------------------------------------------------------
(* The Response Formatter, on the results lists the executor hands it.     *)

ErrorsOf(rs) == SelectSeq(rs, IsError)
SuccessesOf(rs) == SelectSeq(rs, IsSuccess)

\* the executor has handed `results` to format_final_response and returned
Formatted == pc = "done" /\ formatted

\* both kinds of record are in the list
Mixed(rs) == ErrorsOf(rs) # <<>> /\ SuccessesOf(rs) # <<>>

\* s ends with suffix
EndsWith(s, suffix) ==
  /\ Len(s) >= Len(suffix)
  /\ SubSeq(s, Len(s) - Len(suffix) + 1, Len(s)) = suffix

\* C11 (as claimed): on a list with a success and an error record the
\* response's message is the message of the last success record followed by
\* "\nSome actions failed", details.success is that record and
\* details.errors is the list of all error records in order.
C11_PartialAsClaimed ==
  (Formatted /\ Mixed(results))
    => LET success == Last(SuccessesOf(results)) IN
       /\ "message" \in DOMAIN success
       /\ response.message = success.message \o "\nSome actions failed"
       /\ response.details.success = success
       /\ response.details.errors = ErrorsOf(results)

\* C11 (amended): the message is the last success record's message, or
\* "Partial success" when that record has none, followed by "\nSome actions
\* failed"; details.success is the last success record and details.errors
\* the error records in order.  When a search succeeds and the playback
\* fails the message ends with "Some actions failed" and there is 1 error.
C11_PartialSuccess ==
  (Formatted /\ Mixed(results))
    => LET success == Last(SuccessesOf(results)) IN
       /\ DOMAIN response = {"message", "details"}
       /\ response.message
            = (IF "message" \in DOMAIN success THEN success.message ELSE "Partial success")
              \o "\nSome actions failed"
       /\ DOMAIN response.details = {"success", "errors"}
       /\ response.details.success = success
       /\ response.details.errors = ErrorsOf(results)
       /\ (/\ Len(results) = 2
           /\ input[1].tool_name = "SpotifySearch"
           /\ input[2].tool_name = "SpotifyPlayback"
           /\ IsError(results[2]))
            => /\ EndsWith(response.message, "Some actions failed")
               /\ Len(response.details.errors) = 1

\* two different successes around an error, the last one with a message
C11_Witness ==
  /\ Formatted
  /\ Len(results) = 3
  /\ IsSuccess(results[1])
  /\ IsError(results[2])
  /\ IsSuccess(results[3])
  /\ results[1] # results[3]
  /\ "message" \in DOMAIN results[3]

\* C12: on a non-empty list of error records only, the response is the
\* last error record itself; no earlier record is in it.
C12_AllFailed ==
  (Formatted /\ results # <<>> /\ SuccessesOf(results) = <<>>)
    => /\ response = Last(results)
       /\ DOMAIN response = {"error"}

\* two different errors were formatted
C12_Witness ==
  /\ Formatted
  /\ Len(results) >= 2
  /\ SuccessesOf(results) = <<>>
  /\ results[1] # Last(results)

\* C13: on a list of success records only, details is the last record and
\* the message is that record's message, or "Command executed successfully"
\* when it has none (a Search or a GetInfo as last step).
C13_AllSucceeded ==
  (Formatted /\ results # <<>> /\ ErrorsOf(results) = <<>>)
    => /\ DOMAIN response = {"message", "details"}
       /\ response.details = Last(results)
       /\ response.message
            = (IF "message" \in DOMAIN Last(results) THEN Last(results).message
               ELSE "Command executed successfully")
       /\ (IsSearchSuccess(Last(results)) \/ IsGetInfoSuccess(Last(results)))
            => response.message = "Command executed successfully"

\* a sequence of successes ending in a GetInfo was formatted
C13_Witness ==
  /\ Formatted
  /\ Len(results) = 3
  /\ ErrorsOf(results) = <<>>
  /\ IsGetInfoSuccess(results[3])
  /\ "message" \in DOMAIN results[2]

---------------------------------------------------------------------------
(* Steps that end without a remote call.                                   *)

\* the parameter is absent, None, or empty
Without(params, key) ==
  \/ key \notin DOMAIN params
  \/ params[key] \in {None, Str(""), List(<<>>)}

\* the failures of validation, for a step with the search result `found`
\* (None when there is none) in the context
FailsValidation(a, found) ==
  LET sub == IF "action" \in DOMAIN a.params THEN a.params["action"] ELSE None IN
  \/ /\ a.tool_name = "SpotifyQueue"
     /\ Without(a.params, "track_id")
     /\ found = None
  \/ /\ a.tool_name = "SpotifyPlaylist"
     /\ \/ sub = Str("get_tracks") /\ Without(a.params, "playlist_id")
        \/ /\ sub \in {Str("add_tracks"), Str("remove_tracks")}
           /\ Without(a.params, "playlist_id") \/ Without(a.params, "track_ids")
        \/ /\ sub = Str("change_details")
           /\ \/ Without(a.params, "playlist_id")
              \/ Without(a.params, "name") /\ Without(a.params, "description")
        \/ sub \notin {Str("get"), Str("get_tracks"), Str("add_tracks"),
                       Str("remove_tracks"), Str("change_details")}

\* C15: a step that fails validation (Queue with neither track_id nor a
\* search result; Playlist get_tracks without playlist_id; add_tracks or
\* remove_tracks without playlist_id or non-empty track_ids; change_details
\* without playlist_id or with neither name nor description; an unknown
\* Playlist sub-action) has ended right after its dispatch with an error
\* StepOutcome in the results list and without any call to the session.
C15_ValidationMakesNoCall ==
  \A i \in 1..Len(input) :
    (dispatches = i /\ FailsValidation(input[i], context.search_result))
      => /\ calls = <<>>
         /\ outstanding = 0
         /\ frame = NoFrame
         /\ pc \in {"loop", "done"}
         /\ Len(results) = i
         /\ IsError(results[i])
         /\ actions[i] = input[i]

\* add_tracks with a playlist_id and an empty track_ids, after a search
C15_Witness ==
  /\ dispatches = 2
  /\ Len(input) = 2
  /\ input[2].tool_name = "SpotifyPlaylist"
  /\ "action" \in DOMAIN input[2].params
  /\ input[2].params["action"] = Str("add_tracks")
  /\ "playlist_id" \in DOMAIN input[2].params
  /\ input[2].params["playlist_id"] = Str("p1")
  /\ "track_ids" \in DOMAIN input[2].params
  /\ input[2].params["track_ids"] = List(<<>>)
  /\ Len(results) = 2
  /\ IsError(results[2])

FiveKinds ==
  {"SpotifySearch", "SpotifyGetInfo", "SpotifyPlayback", "SpotifyQueue", "SpotifyPlaylist"}

\* C16: a step whose kind is none of the five tool kinds puts the error
\* "Unsupported action: <kind>" in the results list, makes no remote call
\* and raises nothing; the loop then stands at the following step, and the
\* executor returns only through the formatter, after the last step.
C16_UnsupportedKind ==
  \A i \in 1..Len(input) :
    (dispatches >= i /\ input[i].tool_name \notin FiveKinds)
      => /\ Len(results) >= i
         /\ results[i] = [error |-> "Unsupported action: " \o input[i].tool_name]
         /\ dispatches = i
              => /\ calls = <<>>
                 /\ outstanding = 0
                 /\ \/ pc = "loop" /\ idx = i + 1
                    \/ pc = "done" /\ formatted /\ i = Len(input)

\* a step was dispatched after the unsupported one and made a remote call
C16_Witness ==
  /\ Len(input) = 3
  /\ input[2].tool_name \notin FiveKinds
  /\ dispatches = 3
  /\ Len(calls) = 1
  /\ results[2] = [error |-> "Unsupported action: SpotifyVolume"]

\* C17: when execute_spotify_actions has returned, every action of the
\* caller's list has the kind and the parameters it was passed in with.
C17_ActionsUntouched ==
  pc \in {"done", "crashed"} => actions = input

---------------------------------------------------------------------------
(* The search outcome against the payload the remote answered with.        *)

\* the content elements of the last answer that bear text
AnsweredTexts ==
  SelectSeq(Last(calls).result.content, LAMBDA element : "text" \in DOMAIN element)

\* the payload decoded from the first of them
AnsweredPayload == AnsweredTexts[1].text.json

\* the only step is a search whose call was answered with a JSON object and
\* whose outcome is in the results list
SearchAnswered ==
  /\ Len(input) = 1
  /\ input[1].tool_name = "SpotifySearch"
  /\ Len(results) = 1
  /\ calls # <<>>
  /\ Last(calls).status = "returned"
  /\ ~Last(calls).result.isError
  /\ AnsweredTexts # <<>>
  /\ AnsweredPayload.k = "dict"

NonEmptyList(d, key) == key \in DOMAIN d /\ d[key].k = "list" /\ d[key].l # <<>>

\* the kind of the chosen item: album when an album was asked for and the
\* payload lists one, track otherwise
ChosenKind ==
  IF /\ "qtype" \in DOMAIN input[1].params
     /\ input[1].params["qtype"] = Str("album")
     /\ NonEmptyList(AnsweredPayload.d, "albums")
  THEN "album" ELSE "track"

HasChosen == NonEmptyList(AnsweredPayload.d, ChosenKind \o "s")

Chosen == AnsweredPayload.d[ChosenKind \o "s"].l[1].d

\* C19: a successful Search outcome for a chosen item with id I and kind K
\* has uri "spotify:K:I", id I and type K; its artist is the first element
\* of a list-typed `artists` field, else the value of the `artist` field.
C19_SearchResultOfItem ==
  (SearchAnswered /\ IsSearchSuccess(results[1]))
    => LET r == results[1].result.d IN
       /\ HasChosen
       /\ "id" \in DOMAIN Chosen
       /\ r["id"] = Chosen["id"]
       /\ r["uri"] = Str("spotify:" \o ChosenKind \o ":" \o Chosen["id"].s)
       /\ r["type"] = Str(ChosenKind)
       /\ IF NonEmptyList(Chosen, "artists")
          THEN r["artist"] = Chosen["artists"].l[1]
          ELSE "artist" \in DOMAIN Chosen => r["artist"] = Chosen["artist"]
       /\ (\/ NonEmptyList(Chosen, "artists") /\ Chosen["artists"] = List(<<Str("Artist X")>>)
           \/ "artists" \notin DOMAIN Chosen /\ "artist" \in DOMAIN Chosen
                /\ Chosen["artist"] = Str("Artist X"))
            => r["artist"] = Str("Artist X")

\* an album whose item has a list of two artists and another scalar artist
C19_Witness ==
  /\ SearchAnswered
  /\ IsSearchSuccess(results[1])
  /\ ChosenKind = "album"
  /\ NonEmptyList(Chosen, "artists")
  /\ Len(Chosen["artists"].l) = 2
  /\ "artist" \in DOMAIN Chosen
  /\ Chosen["artist"] = Str("Artist Z")
  /\ results[1].result.d["artist"] = Str("Artist X")

\* the item has no `artist` field and no non-empty list under `artists`
NoArtistInformation(item) ==
  /\ "artist" \notin DOMAIN item
  /\ ~NonEmptyList(item, "artists")

\* C20: a Search whose chosen item has no usable artist information (the
\* item is {}, has neither a list-typed `artists` nor an `artist` field, or
\* has an empty `artists` list) yields a success StepOutcome with the
\* artist "Unknown Artist".
C20_UnknownArtist ==
  (SearchAnswered /\ HasChosen /\ NoArtistInformation(Chosen))
    => /\ IsSearchSuccess(results[1])
       /\ results[1].result.d["artist"] = Str("Unknown Artist")

---------------------------------------------------------------------------
(* Concurrent executions.                                                  *)

\* call_tool_with_retry run against the answers evs: what it returns or
\* raises, and the answers left over
RECURSIVE Invoke(_, _, _)
Invoke(retries, max_retries, evs) ==
  IF ~MayAttempt(retries, max_retries) \/ evs = <<>>
  THEN [raised |-> FALSE, result |-> None, rest |-> evs]
  ELSE IF ~Head(evs).raised
  THEN [raised |-> FALSE, result |-> Head(evs).result, rest |-> Tail(evs)]
  ELSE IF Exhausted(retries + 1, max_retries)
  THEN [raised |-> TRUE, exc |-> Head(evs).exc, rest |-> Tail(evs)]
  ELSE Invoke(retries + 1, max_retries, Tail(evs))

\* the FinalResponse of execute_spotify_actions run alone on acts from step
\* i on, with the results rs and the context ctx, against the answers evs
RECURSIVE RunAlone(_, _, _, _, _)
RunAlone(acts, i, rs, ctx, evs) ==
  IF i > Len(acts)
  THEN LET f == format_final_response(rs) IN
       IF f.raised THEN Error(f.msg) ELSE f.value
  ELSE LET tool_name == acts[i].tool_name
           begin == HandlerBegin(tool_name, acts[i].params, ctx)
           invoked == Invoke(0, MAX_RETRIES, evs)
           step == IF begin.kind # "call" THEN begin
                   ELSE IF invoked.raised THEN Raise(invoked.exc)
                   ELSE HandlerEnd(tool_name, begin.params, ctx, invoked.result)
           rest == IF begin.kind # "call" THEN evs ELSE invoked.rest
       IN
       IF step.kind = "raise" THEN Error(step.msg)
       ELSE IF IsCritical(tool_name, step.outcome) THEN step.outcome
       ELSE RunAlone(acts, NextIndex(i), Append(rs, step.outcome),
                     ContextUpdate(step.context, step.outcome), rest)

\* every remote call of the execution e's current step was made with the
\* search result of e's own last successful search before it, or with none
ReadsOwnContext(e) ==
  \A k \in 1..Len(e.calls) :
    e.calls[k].context.search_result = LastSearch(Prefix(e.results, e.calls[k].nresults))

\* the execution e, when it has returned, has returned what it returns
\* when run alone against the answers it got
ReturnsAsAlone(e) ==
  e.pc = "done"
    => e.response = RunAlone(e.input, 1, <<>>,
                             [search_result |-> None, album_tracks |-> None],
                             e.trace.events)

\* C18: of two executions interleaved at their remote calls and backoff
\* sleeps, each reads at every step the context built from its own results
\* only, and each returns the FinalResponse it returns when run alone
\* against the same remote replies.
C18_ExecutionsIsolated ==
  /\ ReadsOwnContext(Execution)
  /\ context.search_result = LastSearch(results)
  /\ ReturnsAsAlone(Execution)
  /\ other # NoOther
       => /\ ReadsOwnContext(other)
          /\ other.context.search_result = LastSearch(other.results)
          /\ ReturnsAsAlone(other)

\* the first execution has returned after its search and its queue step
\* succeeded, while the second one, which found something else, sleeps
\* between two attempts of its playback call
C18_Witness ==
  /\ other # NoOther
  /\ pc = "done"
  /\ formatted
  /\ Len(results) = 2
  /\ IsSearchSuccess(results[1])
  /\ IsSuccess(results[2])
  /\ other.pc = "sleep"
  /\ other.dispatches = 2
  /\ IsSearchSuccess(other.results[1])
  /\ other.results[1] # results[1]

---------------------------------------------------------------------------
(* The backoff sleeps of call_tool_with_retry.                             *)

FailedCalls == {j \in 1..Len(calls) : calls[j].status = "raised"}

\* C30: the sleep after the n-th failed attempt lasts RETRY_DELAY * 2^(n-1);
\* every failed attempt but the one that exhausts max_retries is followed
\* by one sleep and a successful attempt by none, so a run that fails on
\* all m attempts has slept m - 1 times.
C30_BackoffDelays ==
  /\ \A n \in 1..Len(sleeps) : sleeps[n] = RETRY_DELAY * 2^(n - 1)
  /\ Len(sleeps) = Cardinality(FailedCalls) - (IF pc = "raised" THEN 1 ELSE 0)
  /\ pc = "raised" => /\ Cardinality(FailedCalls) = frame.max_retries
                      /\ Len(sleeps) = frame.max_retries - 1
  /\ (pc = "returned" /\ calls # <<>>)
       => /\ Last(calls).status = "returned"
          /\ Len(sleeps) = Len(calls) - 1

\* four attempts failed: three sleeps of 1, 2 and 4 delays
C30_Witness ==
  /\ frame.max_retries = 4
  /\ pc = "raised"
  /\ sleeps = <<RETRY_DELAY, 2 * RETRY_DELAY, 4 * RETRY_DELAY>>

---------------------------------------------------------------------------
(* Which item a search takes, and what it makes of answers without one.    *)

\* the chosen item lacks what a search result is built from
Unusable(item) ==
  \/ "name" \notin DOMAIN item
  \/ "id" \notin DOMAIN item
  \/ "artists" \in DOMAIN item /\ item["artists"] = List(<<>>)

\* C25: with qtype exactly "album" and a non-empty `albums` list the search
\* takes the first album, with type "album"; otherwise with a non-empty
\* `tracks` list it takes the first track, with type "track"; otherwise the
\* outcome is the error "No results found for query: <query>".  A result of
\* type "album" needs qtype "album", and albums without tracks under qtype
\* "track,album" give the error.  (An item taken that has no name, no id or
\* an empty artists list gives the parse error instead of a result.)
C25_SearchSelection ==
  SearchAnswered
    => LET qtype == IF "qtype" \in DOMAIN input[1].params
                    THEN input[1].params["qtype"] ELSE None
           none == [error |-> "No results found for query: " \o input[1].params["query"].s]
       IN
       /\ ~HasChosen => results[1] = none
       /\ (HasChosen /\ ~Unusable(Chosen))
            => /\ IsSearchSuccess(results[1])
               /\ results[1].result.d["type"] = Str(ChosenKind)
               /\ results[1].result.d["id"] = Chosen["id"]
               /\ results[1].result.d["name"] = Chosen["name"]
       /\ (HasChosen /\ Unusable(Chosen))
            => results[1] = [error |-> "Failed to parse search results"]
       /\ (IsSearchSuccess(results[1]) /\ results[1].result.d["type"] = Str("album"))
            => qtype = Str("album")
       /\ (/\ qtype = Str("track,album")
           /\ NonEmptyList(AnsweredPayload.d, "albums")
           /\ ~NonEmptyList(AnsweredPayload.d, "tracks"))
            => results[1] = none

\* qtype "track,album" answered with one good album and no tracks
C25_Witness ==
  /\ SearchAnswered
  /\ input[1] = SearchAnyBoth
  /\ NonEmptyList(AnsweredPayload.d, "albums")
  /\ ~Unusable(AnsweredPayload.d["albums"].l[1].d)
  /\ "tracks" \notin DOMAIN AnsweredPayload.d
  /\ results[1] = [error |-> "No results found for query: anything"]

\* the only step is a search, its call has returned and the step has ended
SearchReturned ==
  /\ Len(input) = 1
  /\ input[1].tool_name = "SpotifySearch"
  /\ dispatches = 1
  /\ pc \in {"loop", "done"}
  /\ calls # <<>>
  /\ Last(calls).status = "returned"

\* C26: a Search whose remote result reports an error, or has no content
\* element bearing text, yields the error "No search results found".
C26_NoSearchResults ==
  (SearchReturned /\ (Last(calls).result.isError \/ AnsweredTexts = <<>>))
    => results = <<[error |-> "No search results found"]>>

\* the payload is not JSON, is JSON but no object, or the item the search
\* takes is no object or has no name or no id
Malformed(payload) ==
  \/ payload.k # "dict"
  \/ /\ HasChosen
     /\ LET item == payload.d[ChosenKind \o "s"].l[1] IN
        \/ item.k # "dict"
        \/ "name" \notin DOMAIN item.d
        \/ "id" \notin DOMAIN item.d

\* C27: a Search answered with an undecodable or structurally unexpected
\* payload ends with the error "Failed to parse search results" in the
\* results list; no exception leaves the handler.
C27_MalformedPayload ==
  (/\ SearchReturned
   /\ ~Last(calls).result.isError
   /\ AnsweredTexts # <<>>
   /\ Malformed(AnsweredPayload))
    => results = <<[error |-> "Failed to parse search results"]>>

---------------------------------------------------------------------------
(* The outcomes of steps of every kind.                                    *)

SuccessFields == {"action", "message", "result", "item", "tracks", "playlists"}

ErrorShape(r) == "error" \in DOMAIN r /\ DOMAIN r \cap SuccessFields = {}

SuccessShape(r) == "action" \in DOMAIN r /\ "error" \notin DOMAIN r

\* C21: every StepOutcome in the results list is an error record (an
\* `error` field and none of action, message, result, item, tracks,
\* playlists) or a success record (an `action` field and no `error` field);
\* none is both and none is neither.
C21_OutcomeShapes ==
  \A i \in 1..Len(results) :
    /\ ErrorShape(results[i]) \/ SuccessShape(results[i])
    /\ ~(ErrorShape(results[i]) /\ SuccessShape(results[i]))
    /\ ("error" \in DOMAIN results[i]) # ("action" \in DOMAIN results[i])

\* a search, a playback that the remote refused and a pause that succeeded
C21_Witness ==
  /\ Len(results) = 3
  /\ IsSearchSuccess(results[1])
  /\ input[2].tool_name = "SpotifyPlayback"
  /\ ErrorShape(results[2])
  /\ SuccessShape(results[3])
  /\ "message" \in DOMAIN results[3]

---------------------------------------------------------------------------
(* What ends a sequence and what does not.                                 *)

\* this step of the executor puts the error outcome of a step that is no
\* Search in the results list
NonSearchStepFails ==
  /\ Len(results') = Len(results) + 1
  /\ IsError(results'[Len(results')])
  /\ idx \in 1..Len(input)
  /\ input[idx].tool_name # "SpotifySearch"

\* this step of the executor runs the Response Formatter
FormatterRuns == formatted' /\ ~formatted

\* C22 (as claimed): once a step that is no Search has ended in an error
\* outcome, every remaining step is dispatched and the executor finishes by
\* running the Response Formatter on the outcomes of all steps of the list.
C22_AlwaysFormatted ==
  (/\ pc = "done"
   /\ \E i \in 1..Len(results) :
        IsError(results[i]) /\ input[i].tool_name # "SpotifySearch")
    => /\ formatted
       /\ dispatches = Len(input)
       /\ Len(results) = Len(input)

\* this step of the executor returns without running the Response Formatter
ReturnsEarly == pc' = "done" /\ pc # "done" /\ ~formatted'

\* C22 (amended): the error outcome of a step that is no Search does not
\* end the sequence: the loop moves to the next step of the list with the
\* context as it was before the failed step and nothing returned.  The
\* Response Formatter runs only after the last step, on one outcome per
\* step, and the executor returns without it only when a Search has failed
\* or an exception has left a step.
C22_ErrorDoesNotStop ==
  [][/\ NonSearchStepFails
          => /\ pc' = "loop"
             /\ idx' = idx + 1
             /\ context' = context
             /\ response' = None
             /\ ~formatted'
     /\ FormatterRuns
          => /\ idx = Len(input) + 1
             /\ Len(results) = Len(input)
             /\ results' = results
     /\ ReturnsEarly
          => \/ /\ results' = results
                /\ Len(results) = dispatches - 1
                /\ DOMAIN response' = {"error"}
             \/ /\ Len(results') = dispatches
                /\ input[idx].tool_name = "SpotifySearch"
                /\ IsError(results'[Len(results')])
                /\ response' = results'[Len(results')]]_vars

\* after two searches a step failed, the step after it succeeded and the
\* formatter ran on all four outcomes
C22_Witness ==
  /\ Formatted
  /\ Len(input) = 4
  /\ Len(results) = 4
  /\ IsSearchSuccess(results[2])
  /\ IsError(results[3])
  /\ IsSuccess(results[4])
  /\ DOMAIN response = {"message", "details"}

---------------------------------------------------------------------------
(* What a step sends to the remote tool.                                   *)

\* the parameter that carries the uri, for the tools that take one from the
\* context
UriKey(tool_name) ==
  CASE tool_name = "SpotifyPlayback" -> "spotify_uri"
    [] tool_name = "SpotifyQueue"    -> "track_id"
    [] tool_name = "SpotifyGetInfo"  -> "item_uri"

\* the caller gave the parameter a value
Explicit(params, key) == key \in DOMAIN params /\ params[key] \notin {None, Str("")}

\* C23: a Playback start without an explicit spotify_uri, a Queue step
\* without an explicit track_id and a GetInfo step without an explicit
\* item_uri send the uri of the most recent successful Search before the
\* step; a step with an explicit value sends that value.
C23_UriSent ==
  \A k \in 1..Len(calls) :
    LET call == calls[k]
        a == input[call.step]
        found == LastSearch(Prefix(results, call.nresults))
    IN
    call.tool_name \in {"SpotifyPlayback", "SpotifyQueue", "SpotifyGetInfo"}
      => LET key == UriKey(call.tool_name) IN
         IF Explicit(a.params, key)
         THEN key \in DOMAIN call.params /\ call.params[key] = a.params[key]
         ELSE (/\ found # None
               /\ call.tool_name = "SpotifyPlayback"
                    => "action" \in DOMAIN a.params /\ a.params["action"] = Str("start"))
                => /\ key \in DOMAIN call.params
                   /\ call.params[key] = found.d["uri"]
                   /\ found.d["uri"] \in {Str("spotify:track:t1"), Str("spotify:album:x1")}

\* after a song and an album were found, a start without uri sends the
\* album's uri
C23_Witness ==
  /\ Len(results) = 2
  /\ IsSearchSuccess(results[1])
  /\ IsSearchSuccess(results[2])
  /\ Len(calls) = 1
  /\ calls[1].tool_name = "SpotifyPlayback"
  /\ calls[1].step = 3
  /\ ~Explicit(input[3].params, "spotify_uri")
  /\ "spotify_uri" \in DOMAIN calls[1].params
  /\ calls[1].params["spotify_uri"] = Str("spotify:album:x1")

---------------------------------------------------------------------------
(* Exceptions that leave a step.                                           *)

\* the last call returned JSON that is no object to a handler that reads
\* it with .get: the handler has raised AttributeError
GetOnNonObject ==
  /\ calls # <<>>
  /\ Last(calls).tool_name \in {"SpotifySearch", "SpotifyGetInfo"}
  /\ Last(calls).status = "returned"
  /\ ~Last(calls).result.isError
  /\ AnsweredTexts # <<>>
  /\ AnsweredPayload.k \in {"list", "str", "None"}

\* C24: when an exception has left a step (every attempt of its remote call
\* raised, or the handler raised on the answer), the executor has returned
\* {error: <exception message>} and nothing else: the step left no outcome,
\* no later step was dispatched, the formatter was not run, no call is
\* outstanding and no outcome of an earlier step is in the response.
C24_ExceptionIsResponse ==
  ((RetriesExhausted \/ GetOnNonObject) /\ pc \in {"loop", "done"})
    => /\ pc = "done"
       /\ DOMAIN response = {"error"}
       /\ RetriesExhausted => response.error = Last(calls).exc
       /\ GetOnNonObject
            => response.error = "'" \o (IF AnsweredPayload.k = "None" THEN "NoneType"
                                        ELSE AnsweredPayload.k)
                                \o "' object has no attribute 'get'"
       /\ ~formatted
       /\ dispatches = Last(calls).step
       /\ idx = dispatches
       /\ Len(results) = dispatches - 1
       /\ outstanding = 0
       /\ \A i \in 1..Len(results) : results[i] # response

\* two searches succeeded and every attempt of the third step's call raised
C24_Witness ==
  /\ pc = "done"
  /\ Len(input) = 4
  /\ dispatches = 3
  /\ Len(results) = 2
  /\ IsSearchSuccess(results[2])
  /\ RetriesExhausted
  /\ response = [error |-> "call 3 failed"]

---------------------------------------------------------------------------
(* The outcomes of Queue and Playback steps.                               *)

\* the step dispatched last is a step of tool_name, its remote call has
\* returned and its outcome is in the results list
StepEnded(tool_name) ==
  /\ dispatches \in 1..Len(input)
  /\ input[dispatches].tool_name = tool_name
  /\ Len(results) = dispatches
  /\ calls # <<>>
  /\ Last(calls).step = dispatches
  /\ Last(calls).status = "returned"

\* the result of the last successful search before the step dispatched last
FoundBefore == LastSearch(Prefix(results, dispatches - 1))

\* "<kind> <name> by <artist>" of a search result
Described(found) ==
  found.d["type"].s \o " " \o found.d["name"].s \o " by " \o found.d["artist"].s

\* C28: a successful Queue step has the message "Added <kind> <name> by
\* <artist> to queue" with the item attached when the track_id sent was
\* taken from the search result, and "Added item to queue" without an item
\* when the caller's explicit track_id was sent, also when the context
\* holds a search result.
C28_QueueMessage ==
  (StepEnded("SpotifyQueue") /\ ~Last(calls).result.isError)
    => IF Explicit(input[dispatches].params, "track_id")
       THEN results[dispatches] = [action |-> "queue", message |-> "Added item to queue"]
       ELSE results[dispatches] = [action  |-> "queue",
                                   message |-> "Added " \o Described(FoundBefore) \o " to queue",
                                   item    |-> FoundBefore]

\* s starts with prefix
StartsWith(s, prefix) == Len(s) >= Len(prefix) /\ SubSeq(s, 1, Len(prefix)) = prefix

\* C29: a Playback step the remote refused has an error that starts with
\* "Playback action failed: <action>"; otherwise start with a search result
\* in the context gives "Playing <kind> <name> by <artist>" with the item,
\* start without one "Resuming playback", pause "Playback paused", skip
\* "Skipped to next track" and any other action "Playback command executed".
C29_PlaybackOutcome ==
  StepEnded("SpotifyPlayback")
    => LET params == input[dispatches].params
           action == IF "action" \in DOMAIN params THEN params["action"] ELSE None
           r == results[dispatches]
       IN
       IF Last(calls).result.isError
       THEN /\ DOMAIN r = {"error"}
            /\ StartsWith(r.error, "Playback action failed: "
                                   \o (IF action = None THEN "None" ELSE action.s))
       ELSE /\ "error" \notin DOMAIN r
            /\ r.action = "playback"
            /\ r.message =
                 (CASE action = Str("start") /\ FoundBefore # None
                         -> "Playing " \o Described(FoundBefore)
                    [] action = Str("start") /\ FoundBefore = None -> "Resuming playback"
                    [] action = Str("pause") -> "Playback paused"
                    [] action = Str("skip")  -> "Skipped to next track"
                    [] OTHER                 -> "Playback command executed")
            /\ IF action = Str("start") /\ FoundBefore # None
               THEN "item" \in DOMAIN r /\ r.item = FoundBefore
               ELSE "item" \notin DOMAIN r

\* a start with its own uri after a search: the message names what was found
C29_Witness ==
  /\ StepEnded("SpotifyPlayback")
  /\ Explicit(input[dispatches].params, "spotify_uri")
  /\ FoundBefore # None
  /\ ~Last(calls).result.isError
  /\ results[dispatches].message = "Playing album Album X by B"

---------------------------------------------------------------------------
(* GetInfo and the album-tracks slot of the context.                       *)

\* what the GetInfo handler decodes from the answer to the last call
InfoPayload == FirstText(Last(calls).result.content, EmptyObjectText).json

\* C31: after a successful GetInfo step the context's album_tracks is the
\* `tracks` list of the decoded payload and the outcome's result is the
\* whole payload; a GetInfo whose payload has no non-empty `tracks` list
\* returns "No tracks found in album", and a GetInfo that returns an error
\* leaves album_tracks as it was before the step.
C31_AlbumTracks ==
  StepEnded("SpotifyGetInfo")
    => LET r == results[dispatches]
           slotBefore == Last(calls).context["album_tracks"]
       IN
       /\ IsSuccess(r)
            => /\ InfoPayload.k = "dict"
               /\ NonEmptyList(InfoPayload.d, "tracks")
               /\ r = [action |-> "get_info", result |-> InfoPayload]
               /\ context["album_tracks"] = InfoPayload.d["tracks"]
       /\ (/\ ~Last(calls).result.isError
           /\ InfoPayload # Undecodable
           /\ InfoPayload.k = "dict"
           /\ ~NonEmptyList(InfoPayload.d, "tracks"))
            => r = Error("No tracks found in album")
       /\ IsError(r) => context["album_tracks"] = slotBefore

\* a second GetInfo finds no tracks after a first one stored its tracks
C31_Witness ==
  /\ StepEnded("SpotifyGetInfo")
  /\ Len(results) >= 2
  /\ IsSuccess(results[dispatches - 1])
  /\ "error" \in DOMAIN results[dispatches]
  /\ results[dispatches].error = "No tracks found in album"
  /\ context["album_tracks"] = AlbumInfoY.d["tracks"]

\* a second GetInfo replaces the tracks a first one stored
C31_WitnessReplaced ==
  /\ StepEnded("SpotifyGetInfo")
  /\ IsSuccess(results[dispatches])
  /\ Last(calls).context["album_tracks"] = AlbumInfoY.d["tracks"]
  /\ context["album_tracks"] = AlbumInfo.d["tracks"]

---------------------------------------------------------------------------
(* handle_command.                                                         *)

\* parse_command_with_llm returned an error object
ParseErrorReturned == "error" \in DOMAIN handler.actions

\* C32: when parsing the command yields an error object, that object is
\* the response and the request ends there: no connection is opened, no
\* session is entered or initialized and execute_spotify_actions is not
\* called; and the executor runs only after the connection was opened, the
\* session entered and its initialize completed.
C32_ParseErrorEnds ==
  /\ ParseErrorReturned
       => /\ handler.pc = "responded"
          /\ handler.response = handler.actions
          /\ ~handler.opened /\ ~handler.entered /\ ~handler.initialized
          /\ pc = "idle" /\ dispatches = 0 /\ calls = <<>>
  /\ pc # "idle"
       => handler.opened /\ handler.entered /\ handler.initialized

\* the model answered with an error object of its own
C32_Witness ==
  /\ ParseErrorReturned
  /\ handler.pc = "responded"
  /\ handler.response = [error |-> "Unsupported command"]

\* the executor dispatches its first action in an initialized session
C32_WitnessExecutes ==
  /\ handler.pc = "executing"
  /\ handler.initialized
  /\ dispatches = 1

\* C33: an exception raised while opening the connection, entering the
\* session, initializing it or running the executor becomes the response
\* {error: <exception message>}; handle_command never raises.
C33_FailuresBecomeResponses ==
  /\ handler.pc # "crashed"
  /\ handler.raised # ""
       => /\ handler.pc = "responded"
          /\ handler.response = [error |-> handler.raised]

\* session.initialize raised
C33_Witness ==
  /\ handler.raised = "Session init failed"
  /\ handler.opened /\ handler.entered /\ ~handler.initialized
  /\ handler.pc = "responded"

\* the connection could not be opened
C33_WitnessConnection ==
  /\ handler.raised = "Connection failed"
  /\ ~handler.opened
  /\ handler.pc = "responded"

---------------------------------------------------------------------------
(* The ends of call_tool_with_retry.                                       *)

\* C34: for every max_retries, 0 and negative values included,
\* call_tool_with_retry either returns the result of a call that returned
\* or raises the exception of a call that failed; it never returns without
\* having called the session.
C34_ResultOrException ==
  /\ pc = "returned"
       => /\ calls # <<>>
          /\ Last(calls).status = "returned"
          /\ frame.result = Last(calls).result
  /\ pc = "raised"
       => /\ calls # <<>>
          /\ Last(calls).status = "raised"
          /\ frame.exc = Last(calls).exc

\* C35: call_tool_with_retry retries only on exceptions: a result that
\* reports an error ends the call; every call before it raised, every sleep
\* follows a raised call, no attempt and no sleep follows it, it is what
\* the handler receives and the step's outcome is an error.
C35_ErrorResultNotRetried ==
  \A j \in 1..Len(calls) :
    (calls[j].status = "returned" /\ calls[j].result.isError)
      => /\ j = Len(calls)
         /\ \A i \in 1..(j - 1) : calls[i].status = "raised"
         /\ Len(sleeps) = j - 1
         /\ pc \in {"returned", "loop", "done"}
         /\ frame.result = calls[j].result
         /\ Len(results) = dispatches => IsError(results[dispatches])

\* a Playback step answered at once with a result that reports an error
C35_Witness ==
  /\ StepEnded("SpotifyPlayback")
  /\ Len(calls) = 1
  /\ Last(calls).result.isError
  /\ sleeps = <<>>
  /\ IsError(results[dispatches])

---------------------------------------------------------------------------
(* The remote calls of an execution.                                       *)

\* the remote calls made so far: the answered ones and the one in flight
CallsMade == Len(trace.events) + outstanding

\* C36: the calls of a step go to the tool its action names, there are at
\* most MAX_RETRIES of them and at most one of them returned a result; at
\* most one step per action is dispatched, so an execution of n actions
\* makes at most n * MAX_RETRIES remote calls.
C36_CallsPerAction ==
  /\ \A j \in 1..Len(calls) :
       /\ calls[j].step = dispatches
       /\ calls[j].tool_name = input[dispatches].tool_name
  /\ Len(calls) <= MAX_RETRIES
  /\ Cardinality({j \in 1..Len(calls) : calls[j].status = "returned"}) <= 1
  /\ dispatches <= Len(input)
  /\ CallsMade <= dispatches * MAX_RETRIES
  /\ CallsMade <= Len(input) * MAX_RETRIES

\* two actions and twice MAX_RETRIES calls: the first step got its result
\* on its last attempt, the second none
C36_Witness ==
  /\ Len(input) = 2
  /\ CallsMade = 2 * MAX_RETRIES
  /\ pc = "done"

---------------------------------------------------------------------------
(* Termination.                                                            *)

\* C37: when every remote call returns or raises and every backoff sleep
\* ends, execute_spotify_actions eventually returns a response, whatever
\* the session answers.
C37_Terminates == <>(pc = "done" /\ response # None)

\* the executor has returned after a step that was retried twice
C37_Witness ==
  /\ pc = "done"
  /\ response # None
  /\ Len(sleeps) = MAX_RETRIES - 1
  /\ Len(input) >= 2

---------------------------------------------------------------------------
(* The uri of the search result.                                           *)

\* "spotify:<type>:<id>" for a search result
Normalized(found) ==
  /\ found.k = "dict"
  /\ found.d["type"] \in {Str("track"), Str("album")}
  /\ found.d["uri"] = Str("spotify:" \o found.d["type"].s \o ":" \o Fmt(found.d["id"]))
  /\ Contains(found.d["uri"].s, ":")

\* C38: a non-empty search_result of the context has the uri
\* "spotify:" + type + ":" + id with type track or album, so the uri has
\* the namespace separator and a Playback start that takes its uri from the
\* context sends it as it is, never with "spotify:track:" put before it.
C38_UriNormalized ==
  /\ Truthy(context["search_result"]) => Normalized(context["search_result"])
  /\ \A j \in 1..Len(calls) :
       LET call == calls[j]
           found == call.context["search_result"]
       IN (/\ call.tool_name = "SpotifyPlayback"
           /\ Get(input[call.step].params, "action", None) = Str("start")
           /\ ~Explicit(input[call.step].params, "spotify_uri")
           /\ Truthy(found))
            => /\ Normalized(found)
               /\ call.params["spotify_uri"] = found.d["uri"]

\* a start sends the uri of an album found by a search for anything
C38_Witness ==
  /\ calls # <<>>
  /\ Last(calls).tool_name = "SpotifyPlayback"
  /\ "spotify_uri" \notin DOMAIN input[Last(calls).step].params
  /\ "spotify_uri" \in DOMAIN Last(calls).params
  /\ Last(calls).params["spotify_uri"] = Str("spotify:album:track123")

---------------------------------------------------------------------------
(* What a Playback start played and what it says it played.                *)

\* C39: a successful Playback start whose outcome carries an item and the
\* message "Playing <kind> <name> by <artist>" sent that item's uri as its
\* spotify_uri, also when the step had a spotify_uri of its own.
C39_PlayedWhatItSays ==
  (/\ StepEnded("SpotifyPlayback")
   /\ IsSuccess(results[dispatches])
   /\ "item" \in DOMAIN results[dispatches])
    => /\ results[dispatches].message = "Playing " \o Described(results[dispatches].item)
       /\ "spotify_uri" \in DOMAIN Last(calls).params
       /\ Last(calls).params["spotify_uri"] = results[dispatches].item.d["uri"]

---------------------------------------------------------------------------
(* The empty action list.                                                  *)

\* C40: execute_spotify_actions on an empty list dispatches nothing, makes
\* no remote call and returns the error response made of the formatter's
\* IndexError, not a success response with the default message.
C40_EmptyList ==
  input = <<>>
    => /\ dispatches = 0
       /\ CallsMade = 0
       /\ calls = <<>>
       /\ results = <<>>
       /\ pc \in {"loop", "done"}
       /\ pc = "done" => /\ formatted
                         /\ response = [error |-> "list index out of range"]

\* the execution of the empty list has returned
C40_Witness ==
  /\ input = <<>>
  /\ pc = "done"
  /\ IsError(response)

=============================================================================
